---- MODULE Spec2Model ----
(***************************************************************************)
(* Verification model of the drawer controller repository (TOF_drawer).    *)
(*                                                                         *)
(* The module models                                                       *)
(*   - lib/DM332T.py      : the DM332TStepper driver (variable s and the   *)
(*                          driver-level specification SpecDM; its move    *)
(*                          profile SpecProfile, home() SpecHome and, with *)
(*                          time, SpecTimed, stop() SpecStop, its setters  *)
(*                          SpecSet, a move and the move back SpecRound),  *)
(*   - lib/ld2410.py      : the LD2410 frame reader (SpecLd), its frame    *)
(*                          parser byte by byte (SpecPf) and its circular  *)
(*                          buffer (SpecRb),                               *)
(*   - lib/stepper_dm332t.py : the timer-driven StepperDM332T (SpecXd, and *)
(*                          one target followed to its end, SpecXg),       *)
(*   - main_mode_async.py : the asyncio drawer controller (SpecAsync),     *)
(*   - main_mode_non_block.py, main_mode.py, main_mode_nonedex.py, main.py *)
(*                        : the other control loops (SpecNonBlock,         *)
(*                          SpecMain, SpecNonedex, SpecMainPy; SpecNbRun   *)
(*                          is SpecNonBlock with a fair controller task),  *)
(*   - main_mode_multithread.py : its two asyncio tasks (SpecMu),          *)
(*   - config_mode.py, config.py : config.json as the configuration        *)
(*                          programs write it and main_mode.py loads it    *)
(*                          (SpecCf).                                      *)
(*                                                                         *)
(* Numbers.  The driver computes step intervals in microseconds as floats  *)
(* (1000000 / speed).  The model keeps every interval exactly, as the      *)
(* rational square of the commanded speed: the pair <<n, d>> stands for    *)
(* the interval 1000000 / sqrt(n / d) microseconds.  Two intervals are     *)
(* compared by cross-multiplying.  Millimetres are kept in tenths.         *)
(***************************************************************************)
EXTENDS Integers, Sequences, FiniteSets, TLC

(***************************************************************************)
(* Bounds of the model.                                                    *)
(***************************************************************************)
\* largest |n| passed to move_steps by the driver-level client
MaxSteps == 2
\* number of driver calls the moving thread makes in one run of the driver-level model
MaxCalls == 3
\* largest |position| (in steps) the driver-level model lets the axis reach
MaxPos == 3

\* the constructor's default maximum speed (50000 steps/s in the source) and default
\* acceleration and deceleration (500 steps/s^2), scaled down to the model's speeds
DefaultMaxSpeed == 8
DefaultAcceleration == 2

\* control programs: how often the presence reading may change, and how many times
\* an awaited stepper coroutine may suspend its task before it completes
MaxFlips == 3
MaxYield == 2

\* the speed and the accelerations that the control programs set, scaled down
AppSpeed == 2
AppAcceleration == 4
AppDeceleration == 2

\* lib/ld2410.py: how many bytes are added to the circular buffer
MaxRbAdds == 130

\* main_mode_multithread.py: how many radar periods of a blocking call are counted
MaxMoveTicks == 3

\* main_mode_non_block.py: how far the model follows a move that does not end
MaxTravel == 6

\* home() with time: the ticks of the model's clock in a millisecond, and the
\* longest timer period followed, in milliseconds
UnitsPerMs == 2

MaxPeriodMs == 4

\* LD2410: how many complete data frames the UART holds between two reads, and how
\* many the circular buffer holds (128 bytes, five frames of 23 bytes), scaled down
MaxUartFrames == 2

LdBufferFrames == 3

\* home(): the default backoff_steps, scaled down; main_mode_nonedex.py: the steps
\* per millimetre, in tenths, scaled down
HomeBackoff == 1
SmallStepPerMm10 == 1

\* main_mode_nonedex.py: the configured travel d_out in tenths of a millimetre,
\* scaled down (DEFAULT_CONFIG has 220 mm)
SmallDOut == 800

\* speeds (steps/s), accelerations and decelerations (steps/s^2) the client uses
Speeds == {2, 4}
Accels == {1, 4}
Decels == {1, 4}

Abs(x) == IF x < 0 THEN -x ELSE x

Max(a, b) == IF a >= b THEN a ELSE b

\* Python int(num / den) for den > 0: truncation toward zero
Trunc(num, den) == IF num >= 0 THEN num \div den ELSE -((-num) \div den)

(***************************************************************************)
(* Step intervals (exact): <<n, d>> is 1000000 / sqrt(n / d) microseconds. *)
(***************************************************************************)
\* interval i is at least interval j
IvalGE(i, j) == i[1] * j[2] <= j[1] * i[2]

\* interval i is shorter than interval j
IvalLT(i, j) == ~IvalGE(i, j)

\* the interval 1000000 us (one step per second)
OneSecond == <<1, 1>>

(***************************************************************************)
(* DM332TStepper: the driver object.                                       *)
(***************************************************************************)
\* steps per millimetre, in tenths (25.6 steps/mm)
steps_per_mm10 == 256

\* the driver is constructed with an enable pin by every program of the repository
has_enable == TRUE

\* the conversion as it would be with a rounding down instead of int()
MmToSteps_Floor(mm10, spm10) == (mm10 * spm10) \div 100

\* _mm_to_steps: int(mm * steps_per_mm), mm given in tenths of a millimetre
MmToSteps(mm10, spm10) == Trunc(mm10 * spm10, 100)

\* _precalculate_acceleration_values: _min_step_interval = 1000000 / _max_speed
MinStepIntervalOf(v) == IF v > 0 THEN <<v * v, 1>> ELSE OneSecond

\* _precalculate_acceleration_values: _c0 = 1000000 * sqrt(2 / acceleration)
C0Of(a) == IF a > 0 THEN <<a, 2>> ELSE OneSecond

\* _precalculate_acceleration_values: _ramp_step_count
RampStepCountOf(v, a) == IF a > 0 THEN (v * v) \div (2 * a) ELSE 0

Precalculate(st) ==
    [st EXCEPT !.min_step_interval = MinStepIntervalOf(st.max_speed),
               !.c0 = C0Of(st.acceleration),
               !.ramp_step_count = RampStepCountOf(st.max_speed, st.acceleration)]

\* the object as __init__ leaves it: disabled, position 0, default speed and ramps
NewStepper ==
    Precalculate(
    [current_position_steps |-> 0, target_position_steps |-> 0,
     direction |-> 1, is_enabled |-> FALSE, is_running |-> FALSE,
     timer |-> "off", step_pin |-> 0,
     steps_per_mm |-> steps_per_mm10,
     max_speed |-> DefaultMaxSpeed, acceleration |-> DefaultAcceleration,
     deceleration |-> DefaultAcceleration, use_acceleration |-> TRUE,
     step_interval |-> <<DefaultMaxSpeed * DefaultMaxSpeed, 1>>,
     min_step_interval |-> OneSecond, c0 |-> OneSecond, ramp_step_count |-> 0,
     step_count |-> 0, total_steps |-> 0, accel_count |-> 0, decel_start |-> 0])

\* set_speed(speed)
SetSpeed(st, speed) ==
    LET v == Max(1, Abs(speed))
        t == [st EXCEPT !.max_speed = v]
        u == IF ~st.use_acceleration
             THEN [t EXCEPT !.step_interval = <<v * v, 1>>]
             ELSE t
    IN  Precalculate(u)

\* set_acceleration(acceleration)
SetAcceleration(st, a) == Precalculate([st EXCEPT !.acceleration = Max(1, a)])

\* set_deceleration(deceleration)
SetDeceleration(st, d) == [st EXCEPT !.deceleration = Max(1, d)]

\* enable_acceleration() / disable_acceleration()
EnableAcceleration(st) == [st EXCEPT !.use_acceleration = TRUE]

DisableAcceleration(st) == [st EXCEPT !.use_acceleration = FALSE]

\* set_direction(direction)
SetDirection(st, dir) == [st EXCEPT !.direction = IF dir > 0 THEN 1 ELSE -1]

\* enable(state)
Enable(st, state) == IF has_enable THEN [st EXCEPT !.is_enabled = state] ELSE st

\* disable()
Disable(st) == IF has_enable THEN [st EXCEPT !.is_enabled = FALSE] ELSE st

\* stop() as it would be if it also zeroed the position counter
Stop_ZeroesPosition(st) ==
    [st EXCEPT !.timer = "off", !.is_running = FALSE, !.current_position_steps = 0]

\* stop()
Stop(st) == [st EXCEPT !.timer = "off", !.is_running = FALSE]

\* is_at_target()
IsAtTarget(st) == st.current_position_steps >= st.target_position_steps

\* set_position_steps(position_steps)
SetPositionSteps(st, p) ==
    [st EXCEPT !.current_position_steps = p, !.target_position_steps = p]

\* target_steps(position_steps)
TargetSteps(st, p) == [st EXCEPT !.target_position_steps = p]

(***************************************************************************)
(* _step: one pulse, in the three stages the code goes through.            *)
(***************************************************************************)
\* step_pin.value(1)
PinHigh(st) == [st EXCEPT !.step_pin = 1]

\* step_pin.value(0), after the pulse width has elapsed
PinLow(st) == [st EXCEPT !.step_pin = 0]

\* the update as it would be if it ignored the direction
CountStep_Forward(st) ==
    [st EXCEPT !.current_position_steps = @ + 1,
               !.step_count = @ + 1]

\* the position and step-count update that ends _step
CountStep(st) ==
    [st EXCEPT !.current_position_steps = @ + st.direction,
               !.step_count = @ + 1]

\* a whole _step call
Step(st) == CountStep(PinLow(PinHigh(st)))

(***************************************************************************)
(* The move profile.                                                       *)
(***************************************************************************)
\* the acceleration branch as it would be if it counted the ramp the wrong way
\* round: c0 / sqrt(accel_count - step_count)
AccelInterval_CountDown(st) ==
    LET iv == <<st.c0[1] * Max(1, st.accel_count - st.step_count), st.c0[2]>>
    IN  IF IvalLT(iv, st.min_step_interval) THEN st.min_step_interval ELSE iv

\* _compute_next_step_interval, acceleration branch: c0 / sqrt(step_count + 1),
\* raised to _min_step_interval when shorter
AccelInterval(st) ==
    LET iv == <<st.c0[1] * (Max(0, st.step_count) + 1), st.c0[2]>>
    IN  IF IvalLT(iv, st.min_step_interval) THEN st.min_step_interval ELSE iv

\* _compute_next_step_interval, deceleration branch:
\* c0 / sqrt(max(1, remaining * (acceleration / deceleration) + 1)), capped at 1 s
DecelInterval(st) ==
    LET remaining == Max(0, st.total_steps - st.step_count)
        iv == <<st.c0[1] * (remaining * st.acceleration + st.deceleration),
                st.c0[2] * st.deceleration>>
    IN  IF IvalLT(OneSecond, iv) THEN OneSecond ELSE iv

\* _compute_next_step_interval
ComputeNextStepInterval(st) ==
    IF ~st.use_acceleration THEN st.min_step_interval
    ELSE IF st.step_count < st.accel_count THEN AccelInterval(st)
    ELSE IF st.step_count >= st.decel_start THEN DecelInterval(st)
    ELSE st.min_step_interval

\* _calculate_move_profile as it would be if a move too short for both ramps kept
\* the full deceleration distance
CalculateMoveProfile_FullDecel(st, steps) ==
    LET v2 == st.max_speed * st.max_speed
        fullAccel == v2 \div (2 * Max(1, st.acceleration))
        fullDecel == v2 \div (2 * Max(1, st.deceleration))
        short == fullAccel + fullDecel > steps
        accel_dist == IF short
                      THEN Max(0, (steps * st.acceleration)
                                     \div (st.acceleration + st.deceleration))
                      ELSE fullAccel
    IN  IF ~st.use_acceleration \/ steps <= 1
        THEN [st EXCEPT !.total_steps = steps, !.step_count = 0,
                        !.accel_count = 0, !.decel_start = steps,
                        !.step_interval = st.min_step_interval]
        ELSE [st EXCEPT !.total_steps = steps, !.step_count = 0,
                        !.accel_count = Max(0, accel_dist),
                        !.decel_start = Max(0, steps - fullDecel),
                        !.step_interval = st.c0]

\* _calculate_move_profile(steps)
CalculateMoveProfile(st, steps) ==
    LET v2 == st.max_speed * st.max_speed
        fullAccel == v2 \div (2 * Max(1, st.acceleration))
        fullDecel == v2 \div (2 * Max(1, st.deceleration))
        short == fullAccel + fullDecel > steps
        accel_dist == IF short
                      THEN Max(0, (steps * st.acceleration)
                                     \div (st.acceleration + st.deceleration))
                      ELSE fullAccel
        decel_dist == IF short THEN Max(0, steps - accel_dist) ELSE fullDecel
    IN  IF ~st.use_acceleration \/ steps <= 1
        THEN [st EXCEPT !.total_steps = steps, !.step_count = 0,
                        !.accel_count = 0, !.decel_start = steps,
                        !.step_interval = st.min_step_interval]
        ELSE [st EXCEPT !.total_steps = steps, !.step_count = 0,
                        !.accel_count = Max(0, accel_dist),
                        !.decel_start = Max(0, steps - decel_dist),
                        !.step_interval = st.c0]

\* move_steps as it would be if the target ignored the direction of the move
MoveStepsEnter_TargetForward(st, n) ==
    LET e == IF has_enable /\ ~st.is_enabled THEN Enable(st, TRUE) ELSE st
        d == SetDirection(e, IF n < 0 THEN -1 ELSE 1)
        t == [d EXCEPT !.target_position_steps = d.current_position_steps + Abs(n)]
    IN  [CalculateMoveProfile(t, Abs(n)) EXCEPT !.step_count = 0]

\* move_steps(steps), from its entry to the start of the loop (steps # 0)
MoveStepsEnter(st, n) ==
    LET e == IF has_enable /\ ~st.is_enabled THEN Enable(st, TRUE) ELSE st
        d == SetDirection(e, IF n < 0 THEN -1 ELSE 1)
        t == [d EXCEPT !.target_position_steps =
                           d.current_position_steps + Abs(n) * d.direction]
    IN  [CalculateMoveProfile(t, Abs(n)) EXCEPT !.step_count = 0]

\* one iteration of the loop of move_steps
LoopBody(st) == Step([st EXCEPT !.step_interval = ComputeNextStepInterval(st)])

RECURSIVE MoveLoop(_, _)
\* the loop of move_steps: for _ in range(steps)
MoveLoop(st, k) == IF k = 0 THEN st ELSE MoveLoop(LoopBody(st), k - 1)

\* move_steps(steps) as one blocking call
MoveSteps(st, n) == IF n = 0 THEN st ELSE MoveLoop(MoveStepsEnter(st, n), Abs(n))

\* move_to_position_steps(position_steps)
MoveToPositionSteps(st, p) == MoveSteps(st, p - st.current_position_steps)

\* move_mm(mm) and move_to_position_mm(position_mm), mm in tenths of a millimetre
MoveMm(st, mm10) == MoveSteps(st, MmToSteps(mm10, st.steps_per_mm))

MoveToPositionMm(st, mm10) == MoveToPositionSteps(st, MmToSteps(mm10, st.steps_per_mm))

(***************************************************************************)
(* Continuous run and homing.                                              *)
(***************************************************************************)
\* start_continuous(direction, use_acceleration): the timer is started with the
\* accelerating callback ("accel") or with the plain lambda t: self._step() ("plain")
StartContinuous(st, dir, use_accel) ==
    LET e == IF has_enable /\ ~st.is_enabled THEN Enable(st, TRUE) ELSE st
        d == SetDirection(e, dir)
        q == IF d.is_running THEN Stop(d) ELSE d
        r == [q EXCEPT !.step_count = 0]
    IN  IF use_accel /\ r.use_acceleration
        THEN [r EXCEPT !.timer = "accel", !.step_interval = r.c0,
                       !.is_running = TRUE]
        ELSE [r EXCEPT !.timer = "plain", !.step_interval = r.min_step_interval,
                       !.is_running = TRUE]

\* home(): the settings it saves on entry
OriginalSettings(st) ==
    [max_speed |-> st.max_speed, acceleration |-> st.acceleration,
     use_accel |-> st.use_acceleration]

\* home(switch, homing_speed, backoff_steps, acceleration) up to the wait loop;
\* acceleration = 0 stands for the default None
HomeEnter(st, homing_speed, accel) ==
    LET a == [st EXCEPT !.max_speed = homing_speed]
        b == IF accel # 0
             THEN Precalculate([a EXCEPT !.acceleration = accel,
                                         !.use_acceleration = TRUE])
             ELSE [a EXCEPT !.use_acceleration = FALSE]
        c == SetDirection(Enable(b, TRUE), -1)
    IN  StartContinuous(c, -1, c.use_acceleration)

\* home() after the trigger as it would be without set_position_steps(0)
HomeStop_NoReset(st) == Stop(st)

\* home(): stop() and set_position_steps(0) once the switch has triggered
HomeStop(st) == SetPositionSteps(Stop(st), 0)

\* home(): the restore as it would be without the recalculation
HomeRestore_NoPrecalculate(st, o) ==
    [st EXCEPT !.max_speed = o.max_speed,
               !.acceleration = o.acceleration,
               !.use_acceleration = o.use_accel]

\* home(): the restore of the saved settings that ends it
HomeRestore(st, o) ==
    Precalculate([st EXCEPT !.max_speed = o.max_speed,
                            !.acceleration = o.acceleration,
                            !.use_acceleration = o.use_accel])

\* home() from the triggered switch to its return, as one blocking stretch
HomeFinish(st, o, backoff_steps) ==
    LET a == HomeStop(st)
        b == IF backoff_steps > 0
             THEN SetPositionSteps(MoveSteps(SetDirection(a, 1), backoff_steps), 0)
             ELSE a
    IN  HomeRestore(b, o)

(***************************************************************************)
(* State of the driver-level model.                                        *)
(*   s       the DM332TStepper object                                      *)
(*   end_s   the home switch input (1 = released, 0 = triggered)           *)
(*   pc      where the thread that issues moves is                         *)
(*   loop_i  iterations left in the loop of move_steps                     *)
(*   ret     "idle" or "home": who called move_steps                       *)
(*   cb_pc   stage of the timer callback in progress                       *)
(*   orig    home()'s original_settings                                    *)
(*   backoff home()'s backoff_steps                                        *)
(*   calls   driver calls made so far by the moving thread (history)        *)
(*   req, pos0, pulses, ivals : the last move_steps call's argument, the   *)
(*           position at its entry, the pulses it has emitted and the step *)
(*           intervals it has computed (history)                           *)
(***************************************************************************)
VARIABLES s, end_s, pc, loop_i, ret, cb_pc, orig, backoff, pulses, pos0, req,
          calls, ivals

dmvars == <<s, end_s, pc, loop_i, ret, cb_pc, orig, backoff, pulses, pos0, req, calls, ivals>>

(***************************************************************************)
(* State of the control programs (main_mode_async.py and the other         *)
(* main_mode*.py variants).                                                *)
(*   app_pc         position of the controller (task or main thread)       *)
(*   human, drawer_moving, drawer_closed   the flags of the same names     *)
(*   queue, nready  the task queue of the asyncio loop in the order of the *)
(*                  wake-up times, and how many of its first entries are   *)
(*                  due                                                    *)
(*   mt             the move tasks: kind and position in the coroutine     *)
(*   wait           how many more times the stepper coroutine awaited by a *)
(*                  task suspends it                                       *)
(*   flips          how often human has changed (history)                  *)
(*   cfg            the values read from config.json                       *)
(*   cmds           the number of move commands issued, modulo 4 (history) *)
(*   drawer_target_state, nb, cooled   main_mode_non_block.py: the target  *)
(*                  state, the NonBlockingStepper, and whether more than   *)
(*                  500 ms have passed since last_state_change             *)
(*   motion_detected, drawer_state_change, radar_d   main_mode.py: its     *)
(*                  globals (radar_d in millimetres)                       *)
(*   drawer_open, dist, vel, xs   main.py: the locals of main() (dist is  *)
(*                  its d) and the Stepper object of the stepper library   *)
(***************************************************************************)
VARIABLES app_pc, human, drawer_closed, cmds, cfg,
          drawer_moving, queue, nready, mt, wait, flips,
          drawer_target_state, nb, cooled,
          motion_detected, drawer_state_change, radar_d,
          drawer_open, dist, vel, xs

MoveTasks == {"m1", "m2"}

asyncvars == <<drawer_moving, queue, nready, mt, wait, flips>>

nbvars == <<drawer_target_state, nb, cooled>>

mmvars == <<motion_detected, drawer_state_change, radar_d>>

mpvars == <<drawer_open, dist, vel, xs>>

(***************************************************************************)
(* State used by the closer looks at stop(), at the timing of home() and   *)
(* at the timer-driven class StepperDM332T (lib/stepper_dm332t.py).        *)
(*   stopped        stop() has returned and no move, free-run or home      *)
(*                  command has been issued since (history)                *)
(*   tk, pl         timed home(): the time until the next timer callback   *)
(*                  and until the next read of the switch by the wait      *)
(*                  loop, in units of TimeUnitUs microseconds              *)
(*   past           timed home(): the pulses emitted since the switch      *)
(*                  triggered (history)                                    *)
(*   xd             the StepperDM332T object                               *)
(*   xcb            the position of its timer callback inside step(d), and *)
(*                  the d of that call                                     *)
(*   xnet, xp0      the net number of pulses emitted since the last target *)
(*                  or free-run command, and pos at that command (history) *)
(***************************************************************************)
VARIABLES stopped, tk, pl, past, xd, xcb, xnet, xp0

(***************************************************************************)
(* State used by the looks at single questions.                            *)
(*   rt             a move of the driver and the move back: where the pair *)
(*                  stands, the position before it and its argument        *)
(*                  (history)                                              *)
(*   ld             the LD2410 object (lib/ld2410.py) with the frames      *)
(*                  waiting in the UART and in its circular buffer, and    *)
(*                  the newest frame received (history)                    *)
(*   mu             main_mode_multithread.py: the two tasks of its asyncio *)
(*                  loop, the blocking call the controller is in and the   *)
(*                  radar periods spent in it, whether read_radar has run  *)
(*                  since that call began (history), and the global r_d    *)
(*   cf             config.json (the keys it holds, or no file), and what  *)
(*                  the configuration programs and main_mode.py hold of it *)
(*   rth            main_mode_nonedex.py: the position of r_thread in its  *)
(*                  loop and the global r_d it writes, in millimetres      *)
(***************************************************************************)
VARIABLES rt, ld, mu, cf, rth

(***************************************************************************)
(*   pf             lib/ld2410.py: the frame parser of read_frame_ (the    *)
(*                  frame array, its position, frame_started_, ack_frame_) *)
(*                  with the bytes still to arrive                         *)
(*   rb             lib/ld2410.py: the circular buffer with its head and   *)
(*                  tail, and the bytes added and not yet read (history)   *)
(***************************************************************************)
VARIABLES pf, rb

bytevars == <<pf, rb>>

lookvars == <<rt, ld, mu, cf, rth, bytevars>>

auxvars == <<stopped, tk, pl, past, xd, xcb, xnet, xp0, lookvars>>

appvars == <<app_pc, human, drawer_closed, cmds, cfg, asyncvars, nbvars, mmvars, mpvars,
             auxvars>>

vars == <<dmvars, appvars>>

\* the distances a radar frame reports in the models, in millimetres: one below
\* and one above the default d_threshold
RadarMm == {300, 1500}

NearMm == CHOOSE d \in RadarMm : \A e \in RadarMm : d <= e

FarMm == CHOOSE d \in RadarMm : \A e \in RadarMm : d >= e

\* DEFAULT_CONFIG; the distance d_out is in tenths of a millimetre, the speeds are
\* scaled down
DefaultConfig ==
    [d_threshold |-> 500, d_out |-> 2200, homing_speed |-> AppSpeed,
     forw_speed |-> AppSpeed, back_speed |-> 2 * AppSpeed,
     step_per_mm |-> steps_per_mm10]

\* the parts of the state that a control program does not use, at rest
AsyncOff ==
    /\ drawer_moving = FALSE
    /\ queue = <<>>
    /\ nready = 0
    /\ mt = [m \in MoveTasks |-> [kind |-> "none", pc |-> "free"]]
    /\ wait = [t \in MoveTasks \cup {"ctrl"} |-> 0]
    /\ flips = 0

NbOff ==
    /\ drawer_target_state = TRUE
    /\ nb = [is_moving |-> FALSE, is_homing |-> FALSE, target_mm |-> 0,
             current_mm |-> 0, has_position |-> FALSE]
    /\ cooled = FALSE

MmOff == motion_detected = FALSE /\ drawer_state_change = FALSE /\ radar_d = 0

MpOff ==
    /\ drawer_open = TRUE
    /\ dist = 0
    /\ vel = 0
    /\ xs = [enabled |-> FALSE, run |-> "stopped", speed |-> 0, target |-> 0]

\* StepperDM332T.__init__
NewStepperDM332T ==
    [enabled |-> TRUE, pos |-> 0, target_pos |-> 0, free_run_mode |-> 0,
     timer_is_running |-> FALSE, step_pin |-> 0, dir_pin |-> 0,
     steps_per_sec |-> 10, timer_freq |-> 0]

\* the target fields of LD2410.__init__, as a frame
NoFrame == [type |-> 0, moving |-> 0, stationary |-> 0]

RtOff == rt = [phase |-> "none", kind |-> "steps", start |-> 0, arg |-> 0]

LdOff == ld = [uart |-> <<>>, buffer |-> <<>>, target |-> NoFrame, newest |-> NoFrame]

MuOff ==
    mu = [ctrl |-> "off", radar |-> "off", op |-> "none", ticks |-> 0,
          sampled |-> FALSE, r_d |-> 0]

\* a mapping without keys
NoConfig == [k \in {} |-> 0]

CfOff == cf = [file |-> NoConfig, exists |-> FALSE, loaded |-> NoConfig, at |-> "off"]

RthOff == rth = [at |-> "read", r_d |-> 0]

PfOff == pf = [frame |-> <<>>, position |-> 0, started |-> FALSE, ack |-> FALSE,
               input |-> <<>>, error |-> FALSE, frames |-> 0]

RbOff ==
    rb = [buffer |-> <<>>, head |-> 0, tail |-> 0, unread |-> <<>>, added |-> 0,
          out |-> <<FALSE, 0>>]

ByteOff == PfOff /\ RbOff

AuxOff ==
    /\ RtOff /\ LdOff /\ MuOff /\ CfOff /\ RthOff /\ ByteOff
    /\ stopped = FALSE
    /\ tk = 0 /\ pl = 0 /\ past = 0
    /\ xd = NewStepperDM332T
    /\ xcb = [at |-> "idle", d |-> 0]
    /\ xnet = 0 /\ xp0 = 0

\* no control program is running
AppOff ==
    /\ app_pc = "off"
    /\ human = TRUE
    /\ drawer_closed = TRUE
    /\ cmds = 0
    /\ cfg = DefaultConfig
    /\ AsyncOff /\ NbOff /\ MmOff /\ MpOff /\ AuxOff

\* the driver-level state right after the constructor
InitDM_Driver ==
    /\ s = NewStepper
    /\ end_s = 1
    /\ pc = "idle"
    /\ loop_i = 0
    /\ ret = "idle"
    /\ cb_pc = "idle"
    /\ orig = OriginalSettings(NewStepper)
    /\ backoff = 0
    /\ pulses = 0
    /\ pos0 = 0
    /\ req = 0
    /\ calls = 0
    /\ ivals = 0

\* the driver on its own
InitDM == InitDM_Driver /\ AppOff

\* the moving thread is between two driver calls and no timer callback is running
\* (a timer callback runs to completion before the interrupted thread goes on)
ClientIdle == pc = "idle" /\ cb_pc = "idle"

(***************************************************************************)
(* move_steps, step by step.                                               *)
(***************************************************************************)
\* a thread calls move_steps(n) on an axis with no continuous run active
DM_MoveSteps(n) ==
    /\ ClientIdle
    /\ calls < MaxCalls
    /\ calls' = calls + 1
    /\ s.timer = "off"
    /\ Abs(s.current_position_steps + n) <= MaxPos
    /\ req' = n
    /\ pos0' = s.current_position_steps
    /\ pulses' = 0
    /\ ret' = "idle"
    /\ IF n = 0
       THEN /\ pc' = "ms_ret"
            /\ UNCHANGED <<s, loop_i>>
       ELSE /\ s' = MoveStepsEnter(s, n)
            /\ loop_i' = Abs(n)
            /\ pc' = "ms_compute"
    /\ ivals' = 0
    /\ UNCHANGED <<end_s, cb_pc, orig, backoff>>

\* loop head: the next interval, or the end of the loop
MsCompute ==
    /\ pc = "ms_compute"
    /\ IF loop_i = 0
       THEN /\ pc' = IF ret = "home" THEN "home_end" ELSE "ms_ret"
            /\ UNCHANGED <<s, ivals>>
       ELSE /\ s' = [s EXCEPT !.step_interval = ComputeNextStepInterval(s)]
            /\ ivals' = ivals + 1
            /\ pc' = "ms_high"
    /\ UNCHANGED <<end_s, loop_i, ret, cb_pc, orig, backoff, pulses, pos0, req, calls>>

\* _step: the rising edge
MsHigh ==
    /\ pc = "ms_high"
    /\ s' = PinHigh(s)
    /\ pulses' = pulses + 1
    /\ pc' = "ms_low"
    /\ UNCHANGED <<end_s, loop_i, ret, cb_pc, orig, backoff, pos0, req, calls, ivals>>

\* _step: the falling edge
MsLow ==
    /\ pc = "ms_low"
    /\ s' = PinLow(s)
    /\ pc' = "ms_count"
    /\ UNCHANGED <<end_s, loop_i, ret, cb_pc, orig, backoff, pulses, pos0, req, calls, ivals>>

\* _step: the position update, then the delay that ends the iteration
MsCount ==
    /\ pc = "ms_count"
    /\ s' = CountStep(s)
    /\ loop_i' = loop_i - 1
    /\ pc' = "ms_compute"
    /\ UNCHANGED <<end_s, ret, cb_pc, orig, backoff, pulses, pos0, req, calls, ivals>>

\* move_steps has returned to its caller
MsReturn ==
    /\ pc = "ms_ret"
    /\ pc' = "idle"
    /\ pulses' = 0
    /\ pos0' = 0
    /\ req' = 0
    /\ ivals' = 0
    /\ UNCHANGED <<s, end_s, loop_i, ret, cb_pc, orig, backoff, calls>>

(***************************************************************************)
(* The timer callback of a continuous run (accel_step_callback, or the     *)
(* lambda t: self._step()).                                                *)
(***************************************************************************)
TimerFire ==
    /\ s.timer # "off"
    /\ cb_pc = "idle"
    /\ Abs(s.current_position_steps + s.direction) <= MaxPos
    /\ s' = PinHigh(s)
    /\ cb_pc' = "high"
    /\ UNCHANGED <<end_s, pc, loop_i, ret, orig, backoff, pulses, pos0, req, calls, ivals>>

TimerLow ==
    /\ cb_pc = "high"
    /\ s' = PinLow(s)
    /\ cb_pc' = "low"
    /\ UNCHANGED <<end_s, pc, loop_i, ret, orig, backoff, pulses, pos0, req, calls, ivals>>

TimerCount ==
    /\ cb_pc = "low"
    /\ s' = CountStep(s)
    /\ cb_pc' = "idle"
    /\ UNCHANGED <<end_s, pc, loop_i, ret, orig, backoff, pulses, pos0, req, calls, ivals>>

(***************************************************************************)
(* Calls made by the moving thread between moves.                          *)
(***************************************************************************)
\* s' = f(s) as one call
ClientCall(f) ==
    /\ ClientIdle
    /\ calls < MaxCalls
    /\ calls' = calls + 1
    /\ s' = f
    /\ UNCHANGED <<end_s, pc, loop_i, ret, cb_pc, orig, backoff, pulses, pos0, req, ivals>>

DM_StartContinuous(dir, ua) == ClientCall(StartContinuous(s, dir, ua))

DM_SetDirection(dir) == ClientCall(SetDirection(s, dir))

DM_SetPositionSteps(p) == ClientCall(SetPositionSteps(s, p))

DM_TargetSteps(p) == ClientCall(TargetSteps(s, p))

DM_UseAcceleration(b) ==
    ClientCall(IF b THEN EnableAcceleration(s) ELSE DisableAcceleration(s))

(***************************************************************************)
(* Calls that may also come from another thread, at any point of a move or *)
(* of a timer callback.                                                    *)
(***************************************************************************)
AnyCall(f) ==
    /\ s' = f
    /\ UNCHANGED <<end_s, pc, loop_i, ret, cb_pc, orig, backoff, pulses, pos0, req, calls, ivals>>

DM_SetSpeed(v) == ClientCall(SetSpeed(s, v))

DM_SetAcceleration(a) == ClientCall(SetAcceleration(s, a))

DM_SetDeceleration(d) == ClientCall(SetDeceleration(s, d))

DM_Enable(b) == AnyCall(Enable(s, b))

DM_Disable == AnyCall(Disable(s))

DM_Stop == AnyCall(Stop(s))

(***************************************************************************)
(* home().                                                                 *)
(***************************************************************************)
\* home(switch, homing_speed = hs, backoff_steps = bo, acceleration = acc)
DM_Home(hs, bo, acc) ==
    /\ ClientIdle
    /\ calls < MaxCalls
    /\ orig' = OriginalSettings(s)
    /\ backoff' = bo
    /\ s' = HomeEnter(s, hs, acc)
    /\ pc' = "home_wait"
    /\ calls' = calls + 1
    /\ UNCHANGED <<end_s, loop_i, ret, cb_pc, pulses, pos0, req, ivals>>

\* the wait loop sees the switch triggered: stop(), set_position_steps(0), and the
\* entry of the backoff move
HomeTriggered ==
    /\ pc = "home_wait"
    /\ cb_pc = "idle"
    /\ end_s = 0
    /\ IF backoff > 0
       THEN /\ s' = MoveStepsEnter(SetDirection(HomeStop(s), 1), backoff)
            /\ loop_i' = backoff
            /\ ret' = "home"
            /\ req' = backoff
            /\ pos0' = 0
            /\ pulses' = 0
            /\ ivals' = 0
            /\ pc' = "ms_compute"
       ELSE /\ s' = HomeStop(s)
            /\ pc' = "home_end"
            /\ UNCHANGED <<loop_i, ret, req, pos0, pulses, ivals>>
    /\ UNCHANGED <<end_s, cb_pc, orig, backoff, calls>>

\* after the backoff: set_position_steps(0), the restore of the settings, return
HomeEnd ==
    /\ pc = "home_end"
    /\ s' = HomeRestore(IF backoff > 0 THEN SetPositionSteps(s, 0) ELSE s, orig)
    /\ ret' = "idle"
    /\ pc' = "idle"
    /\ pulses' = 0
    /\ pos0' = 0
    /\ req' = 0
    /\ ivals' = 0
    /\ UNCHANGED <<end_s, loop_i, cb_pc, orig, backoff, calls>>

\* the home switch changes (the drawer reaches or leaves it)
SwitchChange ==
    /\ pc = "home_wait"
    /\ end_s' = 1 - end_s
    /\ UNCHANGED <<s, pc, loop_i, ret, cb_pc, orig, backoff, pulses, pos0, req, calls, ivals>>

NextDM ==
    \/ (\E n \in -MaxSteps..MaxSteps : DM_MoveSteps(n)) /\ UNCHANGED appvars
    \/ MsCompute /\ UNCHANGED appvars
    \/ MsHigh /\ UNCHANGED appvars
    \/ MsLow /\ UNCHANGED appvars
    \/ MsCount /\ UNCHANGED appvars
    \/ MsReturn /\ UNCHANGED appvars
    \/ TimerFire /\ UNCHANGED appvars
    \/ TimerLow /\ UNCHANGED appvars
    \/ TimerCount /\ UNCHANGED appvars
    \/ (\E dir \in {-1, 1}, ua \in BOOLEAN : DM_StartContinuous(dir, ua)) /\ UNCHANGED appvars
    \/ (\E dir \in {-1, 1} : DM_SetDirection(dir)) /\ UNCHANGED appvars
    \/ (\E p \in {0, 1} : DM_SetPositionSteps(p)) /\ UNCHANGED appvars
    \/ (\E p \in {0, 1} : DM_TargetSteps(p)) /\ UNCHANGED appvars
    \/ (\E b \in BOOLEAN : DM_UseAcceleration(b)) /\ UNCHANGED appvars
    \/ (\E v \in Speeds : DM_SetSpeed(v)) /\ UNCHANGED appvars
    \/ (\E a \in Accels : DM_SetAcceleration(a)) /\ UNCHANGED appvars
    \/ (\E d \in Decels : DM_SetDeceleration(d)) /\ UNCHANGED appvars
    \/ (\E b \in BOOLEAN : DM_Enable(b)) /\ UNCHANGED appvars
    \/ DM_Disable /\ UNCHANGED appvars
    \/ DM_Stop /\ UNCHANGED appvars
    \/ (\E hs \in Speeds, bo \in {0, 1}, acc \in {0} \cup Accels : DM_Home(hs, bo, acc)) /\ UNCHANGED appvars
    \/ HomeTriggered /\ UNCHANGED appvars
    \/ HomeEnd /\ UNCHANGED appvars
    \/ SwitchChange /\ UNCHANGED appvars

SpecDM == InitDM /\ [][NextDM]_vars

\* C36: is_at_target() is true exactly when the position equals the target
C36_AtTargetMeansEqual ==
    IsAtTarget(s) <=> (s.current_position_steps = s.target_position_steps)

\* the values _precalculate_acceleration_values derives are those of the settings
DerivedFrom(st, max_speed, acceleration) ==
    /\ st.min_step_interval = MinStepIntervalOf(max_speed)
    /\ st.c0 = C0Of(acceleration)
    /\ st.ramp_step_count = RampStepCountOf(max_speed, acceleration)

\* C37: when home() is called the derived values are those of the settings it
\* saves, and when it returns the settings are the saved ones and the derived
\* values are those of the saved settings again
C37_HomeRestoresSettings ==
    [][/\ (\E hs \in Speeds, bo \in {0, 1}, acc \in {0} \cup Accels : DM_Home(hs, bo, acc))
             => DerivedFrom(s, s.max_speed, s.acceleration)
       /\ HomeEnd
             => /\ s'.max_speed = orig.max_speed
                /\ s'.acceleration = orig.acceleration
                /\ s'.use_acceleration = orig.use_accel
                /\ DerivedFrom(s', orig.max_speed, orig.acceleration)]_vars

\* home() with a backoff has returned on an axis whose speed and acceleration had
\* been set before the call, and the settings are the saved ones
C37_Witness ==
    /\ pc = "idle"
    /\ backoff = 1
    /\ orig.max_speed # DefaultMaxSpeed
    /\ orig.acceleration # DefaultAcceleration
    /\ OriginalSettings(s) = orig

(***************************************************************************)
(* The setters on their own: set_speed, set_acceleration and               *)
(* set_deceleration called with any argument, positive or not, on an idle  *)
(* axis whose ramps are switched on and off.                               *)
(***************************************************************************)
SetterArgs == {-2, 0, 1, 4}

NextSet ==
    \/ (\E v \in SetterArgs : DM_SetSpeed(v)) /\ UNCHANGED appvars
    \/ (\E a \in SetterArgs : DM_SetAcceleration(a)) /\ UNCHANGED appvars
    \/ (\E d \in SetterArgs : DM_SetDeceleration(d)) /\ UNCHANGED appvars
    \/ (\E b \in BOOLEAN : DM_UseAcceleration(b)) /\ UNCHANGED appvars

SpecSet == InitDM /\ [][NextSet]_vars

\* C29: a setter called with a non-positive argument leaves the stored maximum
\* speed, acceleration and deceleration as they were
C29_NonPositiveRejected ==
    [][\A x \in SetterArgs :
          (x <= 0 /\ (DM_SetSpeed(x) \/ DM_SetAcceleration(x) \/ DM_SetDeceleration(x)))
             => /\ s'.max_speed = s.max_speed
                /\ s'.acceleration = s.acceleration
                /\ s'.deceleration = s.deceleration]_vars

(***************************************************************************)
(* The move profile on its own: an enabled axis configured with set_speed, *)
(* set_acceleration and set_deceleration, on which one thread issues       *)
(* move_steps calls and nothing else happens.                              *)
(***************************************************************************)
InitProfile ==
    /\ \E v \in Speeds, a \in Accels, d \in Decels :
          s = Enable(SetDeceleration(SetAcceleration(SetSpeed(NewStepper, v), a), d),
                     TRUE)
    /\ end_s = 1
    /\ pc = "idle"
    /\ loop_i = 0
    /\ ret = "idle"
    /\ cb_pc = "idle"
    /\ orig = OriginalSettings(NewStepper)
    /\ backoff = 0
    /\ pulses = 0
    /\ pos0 = 0
    /\ req = 0
    /\ calls = 0
    /\ ivals = 0
    /\ AppOff

NextProfile ==
    \/ (\E n \in (-2 * MaxPos)..(2 * MaxPos) : DM_MoveSteps(n)) /\ UNCHANGED appvars
    \/ MsCompute /\ UNCHANGED appvars
    \/ MsHigh /\ UNCHANGED appvars
    \/ MsLow /\ UNCHANGED appvars
    \/ MsCount /\ UNCHANGED appvars
    \/ MsReturn /\ UNCHANGED appvars

SpecProfile == InitProfile /\ [][NextProfile]_vars

(***************************************************************************)
(* Claims about the driver.                                                *)
(***************************************************************************)
\* C7: a step pulse starts, and a step is counted, only while the driver is enabled
\* (_is_enabled true): nothing is emitted after disable() or enable(False).
C7_PulseOnlyWhileEnabled ==
    [][/\ (s.step_pin = 0 /\ s'.step_pin = 1) => s.is_enabled
       /\ (MsCount \/ TimerCount) => (s.is_enabled \/ s'.is_enabled)]_vars

\* C8: the step position changes only by one step in the current direction when a
\* pulse is counted, the step pin being low again, or by a set_position_steps call
\* (a direct one, or one of the two that home() makes).
C8_PositionChangesOnlyByPulse ==
    [][s'.current_position_steps # s.current_position_steps =>
          \/ /\ MsCount \/ TimerCount
             /\ s.step_pin = 0
             /\ s'.current_position_steps = s.current_position_steps + s.direction
          \/ \E p \in {0, 1} : DM_SetPositionSteps(p)
          \/ HomeTriggered
          \/ HomeEnd]_vars

\* C8 witness: a move has counted its first pulse
C8_Witness ==
    /\ pc = "ms_compute"
    /\ pulses = 1
    /\ s.step_pin = 0
    /\ s.current_position_steps = pos0 + s.direction

C10_IntervalAtLeastMin ==
    (pc = "ms_high" /\ s.use_acceleration) =>
        IvalGE(s.step_interval, s.min_step_interval)

\* two intervals are equal
IvalEq(i, j) == i[1] * j[2] = j[1] * i[2]

\* a move_steps move is between its entry and its return
InMove == pc \in {"ms_compute", "ms_high", "ms_low", "ms_count"}

\* _calculate_move_profile: the full ramps, int(v^2 / (2a)) and int(v^2 / (2d))
FullRamps(st) ==
    (st.max_speed * st.max_speed) \div (2 * Max(1, st.acceleration))
    + (st.max_speed * st.max_speed) \div (2 * Max(1, st.deceleration))

\* the interval _compute_next_step_interval returns at step index i of the move
IntervalAt(st, i) == ComputeNextStepInterval([st EXCEPT !.step_count = i])

\* C11: at step index i of the acceleration phase the interval is 1000000 / v(i)
\* with v(i) = min(v_max, sqrt(2 * a * (i + 1))).
C11_AccelIntervalFormula ==
    (pc = "ms_high" /\ s.use_acceleration /\ s.step_count < s.accel_count) =>
        IvalEq(s.step_interval,
               IF 2 * s.acceleration * (s.step_count + 1) < s.max_speed * s.max_speed
               THEN <<2 * s.acceleration * (s.step_count + 1), 1>>
               ELSE <<s.max_speed * s.max_speed, 1>>)

\* C12: in a move of more than one step that is too short for the full ramps, with
\* acceleration enabled, accel_count + (steps - decel_start) = steps, so decel_start
\* = accel_count, and every step takes its interval from the acceleration or the
\* deceleration branch, none from the constant phase.
C12_ShortMovePartition ==
    (InMove /\ s.use_acceleration /\ s.total_steps > 1
            /\ FullRamps(s) > s.total_steps) =>
        /\ s.accel_count + (s.total_steps - s.decel_start) = s.total_steps
        /\ s.decel_start = s.accel_count
        /\ pc = "ms_high" =>
              \/ s.step_count < s.accel_count
              \/ s.step_count >= s.decel_start

\* C12 witness: a short move of 5 steps is decelerating, after an acceleration
\* phase of at least one step
C12_Witness ==
    /\ pc = "ms_high"
    /\ s.use_acceleration
    /\ s.total_steps = 5
    /\ FullRamps(s) > 5
    /\ s.accel_count >= 1
    /\ s.step_count >= s.decel_start

\* C13: in a move whose full ramps fit, the intervals of the steps 0..n-1 are
\* non-increasing up to some index and non-decreasing from there on; the interval a
\* step is made with is the one of its index.
C13_SingleHump ==
    (InMove /\ FullRamps(s) <= s.total_steps) =>
        /\ \E k \in 0..(s.total_steps - 1) :
              /\ \A i \in 0..(k - 1) : IvalGE(IntervalAt(s, i), IntervalAt(s, i + 1))
              /\ \A i \in k..(s.total_steps - 2) :
                    IvalGE(IntervalAt(s, i + 1), IntervalAt(s, i))
        /\ pc = "ms_high" => IvalEq(s.step_interval, IntervalAt(s, s.step_count))

\* C13 witness: a move with both ramps and a constant phase between them is in its
\* deceleration phase
C13_Witness ==
    /\ pc = "ms_high"
    /\ s.use_acceleration
    /\ FullRamps(s) <= s.total_steps
    /\ s.accel_count >= 2
    /\ s.accel_count < s.decel_start
    /\ s.step_count >= s.decel_start
    /\ s.step_count < s.total_steps

(***************************************************************************)
(* disable() and enable(False) against a running continuous move.          *)
(***************************************************************************)
\* C19: after disable() or enable(False) returns, the timer of any continuous
\* move in flight is no longer active and is_running() reports False
C19_DisableStopsContinuousMove ==
    [][(DM_Disable \/ DM_Enable(FALSE)) => (s'.timer = "off" /\ ~s'.is_running)]_vars

(***************************************************************************)
(* stop() followed through what comes after it: the driver on its own as   *)
(* in SpecDM, with the history variable stopped set when stop() returns    *)
(* and cleared by the next move_steps, start_continuous or home call.      *)
(***************************************************************************)
stoprest == <<app_pc, human, drawer_closed, cmds, cfg, asyncvars, nbvars, mmvars, mpvars,
              tk, pl, past, xd, xcb, xnet, xp0, lookvars>>

\* a new move, free-run or home command
StopCommand ==
    \/ \E n \in -MaxSteps..MaxSteps : DM_MoveSteps(n)
    \/ \E dir \in {-1, 1}, ua \in BOOLEAN : DM_StartContinuous(dir, ua)
    \/ \E hs \in Speeds, bo \in {0, HomeBackoff}, acc \in {0} \cup Accels : DM_Home(hs, bo, acc)

\* the steps of a blocking move, of a timer callback and of home()
StopRunning ==
    \/ MsCompute \/ MsHigh \/ MsLow \/ MsCount \/ MsReturn
    \/ TimerFire \/ TimerLow \/ TimerCount
    \/ HomeTriggered \/ HomeEnd \/ SwitchChange

\* the calls that neither start nor stop a move
StopOtherCall ==
    \/ \E p \in {0, 1} : DM_SetPositionSteps(p)
    \/ \E b \in BOOLEAN : DM_Enable(b)
    \/ DM_Disable

NextStop ==
    \/ StopCommand /\ stopped' = FALSE /\ UNCHANGED stoprest
    \/ DM_Stop /\ stopped' = TRUE /\ UNCHANGED stoprest
    \/ StopRunning /\ UNCHANGED appvars
    \/ StopOtherCall /\ UNCHANGED appvars

SpecStop == InitDM /\ [][NextStop]_vars

\* C18: when stop() returns the step pin is low, and from then until the next
\* move, free-run or home command no pulse is emitted (the pin stays low) and the
\* position changes only by set_position_steps
C18_StopIsFinal ==
    [][stopped' => /\ s'.step_pin = 0
                   /\ stopped => \/ s'.current_position_steps = s.current_position_steps
                                 \/ \E p \in {0, 1} : DM_SetPositionSteps(p)]_vars

(***************************************************************************)
(* StepperDM332T (lib/stepper_dm332t.py): the timer-driven class.  One     *)
(* task drives the object; its calls reach the object between two timer    *)
(* callbacks, and a callback runs step(d) to its end before that task goes *)
(* on.  step(d) is followed through its pulse: the rising edge, the        *)
(* falling edge and then the update of pos.                                *)
(***************************************************************************)
\* the targets given to target(t)
XdTargets == {-2, 0, 3}

\* the speeds given to speed(sps), in steps per second: the default speed_sps of
\* the constructor and its double
XdSpeeds == {10, 20}

\* target_pos is a float in the program (target_mm, target_deg and move_mm give
\* targets between two steps); the model keeps it in half steps
XdHalf(p) == 2 * p

\* track_target()
XdTrackTarget(x) ==
    [x EXCEPT !.free_run_mode = 0,
              !.timer_is_running = (x.target_pos # XdHalf(x.pos)),
              !.timer_freq = IF x.target_pos # XdHalf(x.pos) THEN x.steps_per_sec ELSE 0]

\* target(t), t in half steps
XdTarget(x, t) == XdTrackTarget([x EXCEPT !.target_pos = t])

\* free_run(d)
XdFreeRun(x, d) ==
    [x EXCEPT !.free_run_mode = d,
              !.timer_is_running = (d # 0),
              !.timer_freq = IF d # 0 THEN x.steps_per_sec ELSE 0,
              !.dir_pin = IF d # 0 THEN @ ELSE 0]

\* stop()
XdStop(x) ==
    [x EXCEPT !.free_run_mode = 0, !.timer_is_running = FALSE, !.timer_freq = 0,
              !.dir_pin = 0]

\* speed(sps)
XdSpeed(x, sps) ==
    LET y == [x EXCEPT !.steps_per_sec = sps]
    IN  IF x.timer_is_running THEN XdTrackTarget(y) ELSE y

\* enable(e)
XdEnable(x, e) == [x EXCEPT !.enabled = e, !.dir_pin = IF e THEN @ ELSE 0]

\* the d of the step(d) that _timer_callback calls, 0 when it calls none
XdCallbackDir(x) ==
    IF x.free_run_mode > 0 THEN 1
    ELSE IF x.free_run_mode < 0 THEN -1
    ELSE IF x.target_pos > XdHalf(x.pos) THEN 1
    ELSE IF x.target_pos < XdHalf(x.pos) THEN -1
    ELSE 0

XdCanStep_IgnoreEnabled(x, d) == d # 0

\* step(d) pulses: d is not 0 and the object is enabled
XdCanStep(x, d) == d # 0 /\ x.enabled

XdIdle == xcb.at = "idle"

Xd_Target(t) ==
    /\ XdIdle
    /\ xd' = XdTarget(xd, XdHalf(t))
    /\ xp0' = xd.pos
    /\ xnet' = 0
    /\ UNCHANGED xcb

Xd_FreeRun(d) ==
    /\ XdIdle
    /\ xd' = XdFreeRun(xd, d)
    /\ IF d # 0 THEN xp0' = xd.pos /\ xnet' = 0 ELSE UNCHANGED <<xp0, xnet>>
    /\ UNCHANGED xcb

Xd_Speed(sps) ==
    /\ XdIdle
    /\ xd' = XdSpeed(xd, sps)
    /\ UNCHANGED <<xcb, xp0, xnet>>

Xd_Stop ==
    /\ XdIdle
    /\ xd' = XdStop(xd)
    /\ UNCHANGED <<xcb, xp0, xnet>>

Xd_Enable(e) ==
    /\ XdIdle
    /\ xd' = XdEnable(xd, e)
    /\ UNCHANGED <<xcb, xp0, xnet>>

\* the timer fires: _timer_callback, and step(d) up to the direction pin
XdCbFire ==
    /\ XdIdle
    /\ xd.timer_is_running
    /\ Abs(xd.pos + XdCallbackDir(xd)) <= MaxPos
    /\ IF XdCanStep(xd, XdCallbackDir(xd))
       THEN /\ xd' = [xd EXCEPT !.dir_pin = IF XdCallbackDir(xd) > 0 THEN 1 ELSE 0]
            /\ xcb' = [at |-> "high", d |-> XdCallbackDir(xd)]
       ELSE UNCHANGED <<xd, xcb>>
    /\ UNCHANGED <<xp0, xnet>>

\* step_pin.value(1)
XdCbHigh ==
    /\ xcb.at = "high"
    /\ xd' = [xd EXCEPT !.step_pin = 1]
    /\ xnet' = xnet + xcb.d
    /\ xcb' = [xcb EXCEPT !.at = "low"]
    /\ UNCHANGED xp0

\* step_pin.value(0)
XdCbLow ==
    /\ xcb.at = "low"
    /\ xd' = [xd EXCEPT !.step_pin = 0]
    /\ xcb' = [xcb EXCEPT !.at = "count"]
    /\ UNCHANGED <<xp0, xnet>>

\* self.pos += 1 or self.pos -= 1, and the return of the callback
XdCbCount ==
    /\ xcb.at = "count"
    /\ xd' = [xd EXCEPT !.pos = @ + xcb.d]
    /\ xcb' = [at |-> "idle", d |-> 0]
    /\ UNCHANGED <<xp0, xnet>>

xdrest == <<dmvars, app_pc, human, drawer_closed, cmds, cfg, asyncvars, nbvars, mmvars,
            mpvars, stopped, tk, pl, past, lookvars>>

NextXd ==
    \/ (\E t \in XdTargets : Xd_Target(t)) /\ UNCHANGED xdrest
    \/ (\E d \in {-1, 0, 1} : Xd_FreeRun(d)) /\ UNCHANGED xdrest
    \/ (\E sps \in XdSpeeds : Xd_Speed(sps)) /\ UNCHANGED xdrest
    \/ Xd_Stop /\ UNCHANGED xdrest
    \/ (\E e \in BOOLEAN : Xd_Enable(e)) /\ UNCHANGED xdrest
    \/ XdCbFire /\ UNCHANGED xdrest
    \/ XdCbHigh /\ UNCHANGED xdrest
    \/ XdCbLow /\ UNCHANGED xdrest
    \/ XdCbCount /\ UNCHANGED xdrest

SpecXd == InitDM /\ [][NextXd]_vars

\* C20: a pulse is emitted only while enabled is true, pos does not change while
\* enabled is false, and whenever no callback is in progress (in particular after
\* enable(False) has interrupted a target or free-run move) pos is the position at
\* the start of the move plus the net number of pulses emitted since
C20_DisabledMeansNoPulse ==
    [][/\ (xd.step_pin = 0 /\ xd'.step_pin = 1) => xd.enabled
       /\ ~xd.enabled => xd'.pos = xd.pos
       /\ xcb'.at = "idle" => xd'.pos = xp0' + xnet']_vars

\* C21: speed(sps) called while a timer-driven move is in flight (the timer runs
\* toward a target not yet reached, or in free-run mode) leaves the timer of that
\* move running at the rate it was started with, and the move goes on as it was
C21_SpeedLeavesMoveInFlight ==
    [][((\E sps \in XdSpeeds : Xd_Speed(sps)) /\ xd.timer_is_running
            /\ XdCallbackDir(xd) # 0)
         => /\ xd'.timer_is_running
            /\ xd'.timer_freq = xd.timer_freq
            /\ xd'.free_run_mode = xd.free_run_mode]_vars

\* enable(False) has interrupted a move to a target after at least one pulse and
\* before the target, and the timer is still running
C20_Witness ==
    /\ ~xd.enabled
    /\ xd.timer_is_running
    /\ XdIdle
    /\ xnet # 0
    /\ XdHalf(xd.pos) # xd.target_pos
    /\ xd.free_run_mode = 0

\* C34: speed(sps) leaves free_run_mode, target_pos, pos and enabled as they were,
\* also during a free run
C34_SpeedChangesOnlyRate ==
    [][(\E sps \in XdSpeeds : Xd_Speed(sps))
         => /\ xd'.free_run_mode = xd.free_run_mode
            /\ xd'.target_pos = xd.target_pos
            /\ xd'.pos = xd.pos
            /\ xd'.enabled = xd.enabled]_vars

(***************************************************************************)
(* StepperDM332T, one target: the enabled object is at some position       *)
(* (overwrite_pos), target(t) is called once, and from then on only the    *)
(* timer callbacks run.  The hardware timer fires again and again, so a    *)
(* callback that is due is eventually run.                                 *)
(***************************************************************************)
\* the positions given to overwrite_pos
XgStarts == {-1, 0, 2}

\* the targets in half steps: those of XdTargets, and 2.5 and -1.5 steps
XgTargets == {XdHalf(t) : t \in XdTargets} \cup {5, -3}

InitXg ==
    /\ InitDM_Driver
    /\ app_pc = "off"
    /\ human = TRUE
    /\ drawer_closed = TRUE
    /\ cmds = 0
    /\ cfg = DefaultConfig
    /\ AsyncOff /\ NbOff /\ MmOff /\ MpOff
    /\ stopped = FALSE /\ tk = 0 /\ pl = 0 /\ past = 0
    /\ \E p \in XgStarts : xd = [NewStepperDM332T EXCEPT !.pos = p]
    /\ xcb = [d |-> 0, at |-> "idle"] /\ xnet = 0 /\ xp0 = 0
    /\ RtOff /\ LdOff /\ MuOff /\ CfOff /\ RthOff /\ ByteOff

\* the one call of target(t)
XgTarget(t) ==
    /\ calls = 0
    /\ XdIdle
    /\ xd' = XdTarget(xd, t)
    /\ xp0' = xd.pos
    /\ xnet' = 0
    /\ calls' = 1
    /\ UNCHANGED xcb

xgrest == <<s, end_s, pc, loop_i, ret, cb_pc, orig, backoff, pulses, pos0, req, ivals,
            app_pc, human, drawer_closed, cmds, cfg, asyncvars, nbvars, mmvars, mpvars,
            stopped, tk, pl, past, lookvars>>

\* _timer_callback, step by step
XgCallback == (XdCbFire \/ XdCbHigh \/ XdCbLow \/ XdCbCount) /\ UNCHANGED <<xgrest, calls>>

NextXg ==
    \/ (\E t \in XgTargets : XgTarget(t)) /\ UNCHANGED xgrest
    \/ XdCbFire /\ UNCHANGED <<xgrest, calls>>
    \/ XdCbHigh /\ UNCHANGED <<xgrest, calls>>
    \/ XdCbLow /\ UNCHANGED <<xgrest, calls>>
    \/ XdCbCount /\ UNCHANGED <<xgrest, calls>>

SpecXg == InitXg /\ [][NextXg]_vars /\ WF_vars(XgCallback)

\* C33: once target(t) has been called, the callbacks reach a state from which on
\* none of them pulses and pos stays as it is
C33_TargetMoveSettles ==
    [](calls = 1 => <>[](xcb.at = "idle" /\ XdCallbackDir(xd) = 0))

(***************************************************************************)
(* home() on its own: a configured axis at some position, on which one     *)
(* thread calls home() again and again while the switch changes and        *)
(* another thread may call enable, disable and stop.  The wait loop is     *)
(* followed turn by turn: its test of the switch (pc = "home_wait") and    *)
(* its time.sleep_ms(1) (pc = "home_sleep").                               *)
(***************************************************************************)
\* the positions the axis may be at when home() is called
StartPositions == {-1, 0, 2}

InitHome ==
    /\ \E v \in Speeds, a \in Accels, p \in StartPositions :
          s = [Enable(SetAcceleration(SetSpeed(NewStepper, v), a), TRUE)
                  EXCEPT !.current_position_steps = p,
                         !.target_position_steps = p]
    /\ end_s = 1
    /\ pc = "idle"
    /\ loop_i = 0
    /\ ret = "idle"
    /\ cb_pc = "idle"
    /\ orig = OriginalSettings(NewStepper)
    /\ backoff = 0
    /\ pulses = 0
    /\ pos0 = 0
    /\ req = 0
    /\ calls = 0
    /\ ivals = 0
    /\ AppOff

\* the wait loop has read the switch as not triggered and sleeps for 1 ms
HomeSleep ==
    /\ pc = "home_wait"
    /\ cb_pc = "idle"
    /\ end_s = 1
    /\ pc' = "home_sleep"
    /\ UNCHANGED <<s, end_s, loop_i, ret, cb_pc, orig, backoff, pulses, pos0, req,
                   calls, ivals>>

\* the sleep is over: back to the test of the switch
HomeWake ==
    /\ pc = "home_sleep"
    /\ cb_pc = "idle"
    /\ pc' = "home_wait"
    /\ UNCHANGED <<s, end_s, loop_i, ret, cb_pc, orig, backoff, pulses, pos0, req,
                   calls, ivals>>

\* the home switch changes at any time during home()
HomeSwitch ==
    /\ pc \in {"home_wait", "home_sleep"}
    /\ end_s' = 1 - end_s
    /\ UNCHANGED <<s, pc, loop_i, ret, cb_pc, orig, backoff, pulses, pos0, req, calls,
                   ivals>>

\* the steps of the thread inside home()
HomeThread ==
    \/ HomeSleep /\ UNCHANGED appvars
    \/ HomeWake /\ UNCHANGED appvars
    \/ HomeTriggered /\ UNCHANGED appvars
    \/ MsCompute /\ UNCHANGED appvars
    \/ MsHigh /\ UNCHANGED appvars
    \/ MsLow /\ UNCHANGED appvars
    \/ MsCount /\ UNCHANGED appvars
    \/ HomeEnd /\ UNCHANGED appvars

\* the timer callback of the continuous run
HomeTimer ==
    \/ TimerFire /\ UNCHANGED appvars
    \/ TimerLow /\ UNCHANGED appvars
    \/ TimerCount /\ UNCHANGED appvars

NextHome ==
    \/ (\E hs \in Speeds, bo \in {0, HomeBackoff}, acc \in {0} \cup Accels :
           DM_Home(hs, bo, acc)) /\ UNCHANGED appvars
    \/ HomeThread
    \/ HomeTimer
    \/ HomeSwitch /\ UNCHANGED appvars
    \/ (\E b \in BOOLEAN : DM_Enable(b)) /\ UNCHANGED appvars
    \/ DM_Disable /\ UNCHANGED appvars
    \/ DM_Stop /\ UNCHANGED appvars

SpecHome == InitHome /\ [][NextHome]_vars

\* the thread inside home() and the timer keep running
SpecHomeFair == SpecHome /\ WF_vars(HomeThread) /\ WF_vars(HomeTimer)

\* home() is in progress
InHome == pc \in {"home_wait", "home_sleep", "home_end"} \/ (InMove /\ ret = "home")

\* C14: whenever home() returns, whatever the backoff and the starting position, the
\* current and the target position are 0 and is_running() is false; so also after
\* each of two calls in succession.
C14_HomeEndsAtZero ==
    [][HomeEnd => /\ s'.current_position_steps = 0
                  /\ s'.target_position_steps = 0
                  /\ ~s'.is_running]_vars

\* C14 witness: a second home() in succession has returned, this one with a backoff
C14_Witness ==
    /\ pc = "idle"
    /\ calls = 2
    /\ backoff = HomeBackoff
    /\ s.current_position_steps = 0

\* C15: home() always terminates: also when the switch never reads triggered and
\* nothing stops the continuous run, a call of home() in progress ends.
C15_HomeTerminates ==
    [](end_s = 1 /\ (pc \in {"home_wait", "home_sleep"} => s.timer # "off"))
        => (InHome ~> (pc = "idle"))

\* C16: in home(switch, homing_speed) without an acceleration argument every step
\* of the approach and of the backoff move is made with an interval of at least
\* 1000000 / homing_speed us, whatever maximum speed was set before the call
\* (_max_speed holds homing_speed until home() restores the settings).
C16_HomingSpeedBound ==
    (/\ InHome
     /\ ~s.use_acceleration
     /\ \/ pc \in {"home_wait", "home_sleep"} /\ s.timer # "off"
        \/ pc = "ms_high") =>
        IvalGE(s.step_interval, <<s.max_speed * s.max_speed, 1>>)


(***************************************************************************)
(* home() with time: the approach of home(switch, homing_speed) without an *)
(* acceleration argument, with the real speeds, followed on a clock of     *)
(* UnitsPerMs ticks to the millisecond.  The timer callback comes every    *)
(* period_ms milliseconds, the wait loop reads the switch, sleeps 1 ms and *)
(* comes back to the read within a further tick at most; a callback is     *)
(* short against a tick and is taken as one step.                          *)
(***************************************************************************)
\* the maximum speeds and homing speeds, in steps per second (500 is the default
\* homing_speed, 1000 the default max_speed of the constructor)
TimedSpeeds == {500, 1000}

\* what a turn of the wait loop takes beyond its sleep_ms(1), in ticks
PollJitter == {0, 1}

\* period_ms = max(1, int(interval / 1000)) for an interval given by its squared
\* speed: the largest k with k <= 1000 / speed
PeriodMs(ival) ==
    LET fits(k) == k * k * ival[1] <= 1000000 * ival[2]
    IN  Max(1, CHOOSE k \in 0..MaxPeriodMs :
                   fits(k) /\ \A j \in (k+1)..MaxPeriodMs : ~fits(j))

InitTimed ==
    /\ \E v \in TimedSpeeds : s = Enable(SetSpeed(NewStepper, v), TRUE)
    /\ end_s = 1
    /\ pc = "idle"
    /\ loop_i = 0
    /\ ret = "idle"
    /\ cb_pc = "idle"
    /\ orig = OriginalSettings(NewStepper)
    /\ backoff = 0
    /\ pulses = 0
    /\ pos0 = 0
    /\ req = 0
    /\ calls = 0
    /\ ivals = 0
    /\ AppOff

timedrest == <<app_pc, human, drawer_closed, cmds, cfg, asyncvars, nbvars, mmvars, mpvars,
               stopped, xd, xcb, xnet, xp0, lookvars>>

\* set_speed(v) between two homing runs
ThSetSpeed(v) == DM_SetSpeed(v) /\ UNCHANGED <<tk, pl, past>>

\* home(switch, homing_speed = hs, backoff_steps = 0): the timer is started with its
\* period and the wait loop comes to its first read of the switch
ThHome(hs) ==
    /\ DM_Home(hs, 0, 0)
    /\ tk' = UnitsPerMs * PeriodMs(s'.step_interval)
    /\ pl' = 0
    /\ past' = 0

\* one tick of time passes while the timer runs and the loop sleeps
ThTick ==
    /\ pc = "home_wait"
    /\ tk > 0
    /\ pl > 0
    /\ tk' = tk - 1
    /\ pl' = pl - 1
    /\ UNCHANGED <<dmvars, past>>

\* the timer callback is due: one _step(); the axis reaches the switch within
\* MaxPos steps
ThTimer ==
    /\ pc = "home_wait"
    /\ s.timer # "off"
    /\ tk = 0
    /\ end_s = 1 => Abs(s.current_position_steps + s.direction) <= MaxPos
    /\ s' = Step(s)
    /\ tk' = UnitsPerMs * PeriodMs(s.step_interval)
    /\ past' = IF end_s = 0 THEN past + 1 ELSE past
    /\ UNCHANGED <<end_s, pc, loop_i, ret, cb_pc, orig, backoff, pulses, pos0, req, calls,
                   ivals, pl>>

\* the axis reaches the switch: the pin reads 0 from now on
ThTrigger ==
    /\ pc = "home_wait"
    /\ end_s = 1
    /\ end_s' = 0
    /\ past' = 0
    /\ UNCHANGED <<s, pc, loop_i, ret, cb_pc, orig, backoff, pulses, pos0, req, calls,
                   ivals, tk, pl>>

\* the wait loop reads the switch as 1 and sleeps: time.sleep_ms(1)
ThPollSleep ==
    /\ pc = "home_wait"
    /\ pl = 0
    /\ end_s = 1
    /\ \E j \in PollJitter : pl' = UnitsPerMs + j
    /\ UNCHANGED <<dmvars, tk, past>>

\* the wait loop reads the switch as 0: stop() and set_position_steps(0)
ThPollStop ==
    /\ pl = 0
    /\ HomeTriggered
    /\ UNCHANGED <<tk, pl, past>>

\* the return of home()
ThEnd == HomeEnd /\ UNCHANGED <<tk, pl, past>>

\* the drawer is pulled off the switch between two homing runs
ThRelease ==
    /\ pc = "idle"
    /\ end_s = 0
    /\ end_s' = 1
    /\ UNCHANGED <<s, pc, loop_i, ret, cb_pc, orig, backoff, pulses, pos0, req, calls,
                   ivals, tk, pl, past>>

NextTimed ==
    \/ (\E v \in TimedSpeeds : ThSetSpeed(v)) /\ UNCHANGED timedrest
    \/ (\E hs \in TimedSpeeds : ThHome(hs)) /\ UNCHANGED timedrest
    \/ ThTick /\ UNCHANGED timedrest
    \/ ThTimer /\ UNCHANGED timedrest
    \/ ThTrigger /\ UNCHANGED timedrest
    \/ ThPollSleep /\ UNCHANGED timedrest
    \/ ThPollStop /\ UNCHANGED timedrest
    \/ ThEnd /\ UNCHANGED timedrest
    \/ ThRelease /\ UNCHANGED timedrest

SpecTimed == InitTimed /\ [][NextTimed]_vars

\* C17: in home(), from the moment the switch reads triggered until stop() has taken
\* effect, at most one step pulse is emitted
C17_OneStepPastTrigger == past <= 1

(***************************************************************************)
(* A move and the move back: on a configured axis at some position one     *)
(* thread calls move_steps(n) and then move_steps(-n), or move_mm(x) and   *)
(* then move_mm(-x), or move_to_position_mm(x), while another thread may   *)
(* call enable and disable.                                                *)
(***************************************************************************)
\* the distances given to move_mm and move_to_position_mm, in tenths of a
\* millimetre (0.1 mm is 2.56 steps)
RoundMm == {-1, 0, 1}

InitRound ==
    /\ \E v \in Speeds, a \in Accels, p \in StartPositions :
          s = [Enable(SetAcceleration(SetSpeed(NewStepper, v), a), TRUE)
                  EXCEPT !.current_position_steps = p,
                         !.target_position_steps = p]
    /\ end_s = 1
    /\ pc = "idle"
    /\ loop_i = 0
    /\ ret = "idle"
    /\ cb_pc = "idle"
    /\ orig = OriginalSettings(NewStepper)
    /\ backoff = 0
    /\ pulses = 0
    /\ pos0 = 0
    /\ req = 0
    /\ calls = 0
    /\ ivals = 0
    /\ AppOff

roundrest == <<app_pc, human, drawer_closed, cmds, cfg, asyncvars, nbvars, mmvars, mpvars,
               stopped, tk, pl, past, xd, xcb, xnet, xp0, ld, mu, cf, rth, bytevars>>

\* move_steps(n), the first move of a pair
RtMoveSteps(n) ==
    /\ rt.phase = "none"
    /\ DM_MoveSteps(n)
    /\ rt' = [phase |-> "out", kind |-> "steps", start |-> s.current_position_steps,
              arg |-> n]

\* move_mm(x), the first move of a pair
RtMoveMm(x) ==
    /\ rt.phase = "none"
    /\ DM_MoveSteps(MmToSteps(x, s.steps_per_mm))
    /\ rt' = [phase |-> "out", kind |-> "mm", start |-> s.current_position_steps,
              arg |-> x]

\* move_to_position_mm(x)
RtMoveToPositionMm(x) ==
    /\ rt.phase = "none"
    /\ DM_MoveSteps(MmToSteps(x, s.steps_per_mm) - s.current_position_steps)
    /\ rt' = [phase |-> "out", kind |-> "to_mm", start |-> s.current_position_steps,
              arg |-> x]

\* the move back: move_steps(-n) after move_steps(n), move_mm(-x) after move_mm(x)
RtMoveBack ==
    /\ rt.phase = "out"
    /\ rt.kind \in {"steps", "mm"}
    /\ DM_MoveSteps(IF rt.kind = "steps" THEN -rt.arg
                    ELSE MmToSteps(-rt.arg, s.steps_per_mm))
    /\ rt' = [rt EXCEPT !.phase = "back"]

\* the return of the move
RtReturn ==
    /\ MsReturn
    /\ rt' = [rt EXCEPT !.phase = IF @ = "back" THEN "done" ELSE @]

\* the steps of the loop of move_steps
RtLoop == (MsCompute \/ MsHigh \/ MsLow \/ MsCount) /\ UNCHANGED rt

\* enable(b) and disable() from another thread
RtOther == ((\E b \in BOOLEAN : DM_Enable(b)) \/ DM_Disable) /\ UNCHANGED rt

NextRound ==
    \/ (\E n \in -MaxSteps..MaxSteps : RtMoveSteps(n)) /\ UNCHANGED roundrest
    \/ (\E x \in RoundMm : RtMoveMm(x)) /\ UNCHANGED roundrest
    \/ (\E x \in RoundMm : RtMoveToPositionMm(x)) /\ UNCHANGED roundrest
    \/ RtMoveBack /\ UNCHANGED roundrest
    \/ RtReturn /\ UNCHANGED roundrest
    \/ RtLoop /\ UNCHANGED roundrest
    \/ RtOther /\ UNCHANGED roundrest

SpecRound == InitRound /\ [][NextRound]_vars

\* the caller of the moves is between two calls
RtAtRest == pc = "idle" /\ rt.phase \in {"out", "done"}

\* x * steps_per_mm truncated toward zero, x in tenths of a millimetre
TruncatedSteps(x, spm10) ==
    CHOOSE k \in (-MaxPos - 1)..(MaxPos + 1) :
        /\ 100 * Abs(k) <= Abs(x * spm10)
        /\ Abs(x * spm10) < 100 * (Abs(k) + 1)
        /\ k * x >= 0

\* C22: move_steps(n) followed by move_steps(-n) leaves the current position equal
\* to its value before the first call
C22_MoveStepsRoundTrip ==
    (pc = "idle" /\ rt.phase = "done" /\ rt.kind = "steps")
        => s.current_position_steps = rt.start

\* a pair move_steps(n), move_steps(-n) with n not 0 has returned
C22_Witness ==
    pc = "idle" /\ rt.phase = "done" /\ rt.kind = "steps" /\ rt.arg # 0

\* C23: move_mm(x) moves exactly trunc(x * steps_per_mm) steps and
\* move_to_position_mm(x) moves to the step position trunc(x * steps_per_mm), the
\* truncation being toward zero for negative x too; move_mm(x) followed by
\* move_mm(-x) returns to the starting step position
C23_MmTruncatesTowardZero ==
    /\ (pc = "idle" /\ rt.phase = "out" /\ rt.kind = "mm")
          => s.current_position_steps = rt.start + TruncatedSteps(rt.arg, s.steps_per_mm)
    /\ (pc = "idle" /\ rt.phase = "out" /\ rt.kind = "to_mm")
          => s.current_position_steps = TruncatedSteps(rt.arg, s.steps_per_mm)
    /\ (pc = "idle" /\ rt.phase = "done" /\ rt.kind = "mm")
          => s.current_position_steps = rt.start

\* move_mm(x) with a negative x and move_mm(-x) have returned
C23_Witness ==
    pc = "idle" /\ rt.phase = "done" /\ rt.kind = "mm" /\ rt.arg < 0

(***************************************************************************)
(* LD2410.read() (lib/ld2410.py), frame by frame: the radar sends data     *)
(* frames to the UART; read() moves what the UART holds into the circular  *)
(* buffer, where the oldest bytes give way when it is full, and then       *)
(* read_frame_ takes bytes from the buffer up to the end of the first      *)
(* complete frame and parses that frame.                                   *)
(***************************************************************************)
\* the data frames of the model: no target, and a stationary target (type 2) at 30
\* and at 150 cm
LdFrames ==
    {[type |-> 0, moving |-> 0, stationary |-> 0],
     [type |-> 2, moving |-> 0, stationary |-> 30],
     [type |-> 2, moving |-> 0, stationary |-> 150]}

\* the last n elements of a sequence
LastN(q, n) == IF Len(q) <= n THEN q ELSE SubSeq(q, Len(q) - n + 1, Len(q))

\* read(): the UART is emptied into the buffer, then one frame is parsed
LdReadOf(r) ==
    LET b == LastN(r.buffer \o r.uart, LdBufferFrames)
    IN  IF b = <<>>
        THEN [r EXCEPT !.uart = <<>>, !.buffer = <<>>]
        ELSE [r EXCEPT !.uart = <<>>, !.buffer = Tail(b), !.target = Head(b)]

\* a complete data frame has arrived on the UART
LdArrive(f) ==
    /\ Len(ld.uart) < MaxUartFrames
    /\ ld' = [ld EXCEPT !.uart = Append(@, f), !.newest = f]

\* read()
LdRead == ld' = LdReadOf(ld)

ldrest == <<dmvars, app_pc, human, drawer_closed, cmds, cfg, asyncvars, nbvars, mmvars,
            mpvars, stopped, tk, pl, past, xd, xcb, xnet, xp0, rt, mu, cf, rth, bytevars>>

NextLd ==
    \/ (\E f \in LdFrames : LdArrive(f)) /\ UNCHANGED ldrest
    \/ LdRead /\ UNCHANGED ldrest

SpecLd == InitDM /\ [][NextLd]_vars

\* C24: read() leaves the target fields equal to those of the most recent complete
\* data frame received on the UART so far
C24_ReadGivesNewestFrame ==
    [][LdRead => ld'.target = ld'.newest]_vars

(***************************************************************************)
(* lib/ld2410.py, read_frame_ byte by byte: the bytes of one stream arrive *)
(* and go through the circular buffer to the frame parser.  A write past   *)
(* the end of the bytearray radar_data_frame_ raises IndexError, which     *)
(* leaves the parser as it is.                                             *)
(***************************************************************************)
LD2410_MAX_FRAME_LENGTH == 40

Filler(n) == [i \in 1..n |-> 0]

DataHead == <<244, 243, 242, 241>>

DataTail == <<248, 247, 246, 245>>

\* a data frame of the sensor: 13 bytes between the length and the end marker
ValidData == DataHead \o <<13, 0>> \o <<2, 170, 2, 30, 0, 50, 0, 0, 50, 0, 0, 85, 0>> \o DataTail

\* the streams fed to the parser: a frame, a frame whose end marker never arrives,
\* a stray start byte, a length beyond the maximum, a corrupted end marker
LdStreams ==
    {ValidData, ValidData \o ValidData,
     DataHead \o <<255, 255>> \o Filler(5) \o ValidData,
     DataHead \o <<13, 0>> \o Filler(13) \o <<248, 247, 0, 245>> \o ValidData}
    \cup {DataHead \o <<13, 0>> \o Filler(n) : n \in {10, 34, 40}}
    \cup {<<b>> \o Filler(n) : b \in {244, 253}, n \in {5, 39, 45}}

\* check_frame_end_ on frame f (indexed from 0) at position p
CheckFrameEnd(f, p, ack) ==
    IF ack
    THEN /\ f[0] = 253 /\ f[1] = 252 /\ f[2] = 251 /\ f[3] = 250
         /\ f[p - 4] = 4 /\ f[p - 3] = 3 /\ f[p - 2] = 2 /\ f[p - 1] = 1
    ELSE /\ f[0] = 244 /\ f[1] = 243 /\ f[2] = 242 /\ f[3] = 241
         /\ f[p - 4] = 248 /\ f[p - 3] = 247 /\ f[p - 2] = 246 /\ f[p - 1] = 245

\* the body of read_frame_'s loop for one byte b read from the buffer
ReadFrameByte(p, b) ==
    IF ~p.started
    THEN IF b = 244 \/ b = 253
         THEN [p EXCEPT !.frame[0] = b, !.position = 1, !.started = TRUE,
                        !.ack = (b = 253)]
         ELSE p
    ELSE IF p.position >= LD2410_MAX_FRAME_LENGTH
    THEN [p EXCEPT !.error = TRUE]
    ELSE LET f == [p.frame EXCEPT ![p.position] = b]
             n == p.position + 1
             q == [p EXCEPT !.frame = f, !.position = n]
         IN  IF n = 8 /\ (f[4] + 256 * f[5]) + 10 > LD2410_MAX_FRAME_LENGTH
             THEN [q EXCEPT !.started = FALSE, !.position = 0]
             ELSE IF n >= 8 /\ CheckFrameEnd(f, n, p.ack)
             THEN [q EXCEPT !.started = FALSE, !.frames = @ + 1]
             ELSE q

InitPf ==
    /\ InitDM_Driver
    /\ app_pc = "init"
    /\ human = FALSE
    /\ drawer_closed = TRUE
    /\ cmds = 0
    /\ cfg = DefaultConfig
    /\ AsyncOff /\ NbOff /\ MmOff /\ MpOff
    /\ stopped = FALSE /\ tk = 0 /\ pl = 0 /\ past = 0
    /\ xd = NewStepperDM332T /\ xcb = [d |-> 0, at |-> "idle"] /\ xnet = 0 /\ xp0 = 0
    /\ RtOff /\ LdOff /\ MuOff /\ CfOff /\ RthOff /\ RbOff
    /\ \E in \in LdStreams :
          pf = [frame |-> [i \in 0..(LD2410_MAX_FRAME_LENGTH - 1) |-> 0],
                position |-> 0, started |-> FALSE, ack |-> FALSE,
                input |-> in, error |-> FALSE, frames |-> 0]

\* the next byte of the stream arrives and read() passes it to read_frame_
PfByte ==
    /\ pf.input # <<>>
    /\ ~pf.error
    /\ pf' = [ReadFrameByte(pf, Head(pf.input)) EXCEPT !.input = Tail(pf.input)]

pfrest == <<dmvars, app_pc, human, drawer_closed, cmds, cfg, asyncvars, nbvars, mmvars,
            mpvars, stopped, tk, pl, past, xd, xcb, xnet, xp0, rt, ld, mu, cf, rth, rb>>

NextPf == PfByte /\ UNCHANGED pfrest

SpecPf == InitPf /\ [][NextPf]_vars

\* C31: the parser never writes past the end of the frame array, and its position
\* stays within the array's length
C31_ParserStaysInFrame ==
    ~pf.error /\ pf.position <= LD2410_MAX_FRAME_LENGTH

(***************************************************************************)
(* lib/ld2410.py, the circular buffer: add_to_buffer and read_from_buffer  *)
(* in any order.  The k-th byte added has the value k mod 256, so that the *)
(* bytes in the buffer are all different; rb.unread is the queue the       *)
(* buffer stands for, kept apart from head, tail and the array.            *)
(***************************************************************************)
LD2410_BUFFER_SIZE == 128

\* add_to_buffer(byte) as it would be without the overflow handling
AddToBuffer_NoOverflow(r, b) ==
    [r EXCEPT !.buffer[r.head] = b, !.head = (r.head + 1) % LD2410_BUFFER_SIZE]

\* add_to_buffer(byte)
AddToBuffer(r, b) ==
    LET h == (r.head + 1) % LD2410_BUFFER_SIZE
    IN  [r EXCEPT !.buffer[r.head] = b,
                  !.head = h,
                  !.tail = IF h = r.tail THEN (r.tail + 1) % LD2410_BUFFER_SIZE ELSE @]

\* read_from_buffer(); out is the pair it returns
ReadFromBuffer(r) ==
    IF r.head = r.tail
    THEN [r EXCEPT !.out = <<FALSE, 0>>]
    ELSE [r EXCEPT !.out = <<TRUE, r.buffer[r.tail]>>,
                   !.tail = (r.tail + 1) % LD2410_BUFFER_SIZE]

\* the bytes between tail and head, oldest first
RbContents(r) ==
    [i \in 1..((r.head - r.tail + LD2410_BUFFER_SIZE) % LD2410_BUFFER_SIZE) |->
        r.buffer[(r.tail + i - 1) % LD2410_BUFFER_SIZE]]

InitRb ==
    /\ InitDM_Driver
    /\ app_pc = "init"
    /\ human = FALSE
    /\ drawer_closed = TRUE
    /\ cmds = 0
    /\ cfg = DefaultConfig
    /\ AsyncOff /\ NbOff /\ MmOff /\ MpOff
    /\ stopped = FALSE /\ tk = 0 /\ pl = 0 /\ past = 0
    /\ xd = NewStepperDM332T /\ xcb = [d |-> 0, at |-> "idle"] /\ xnet = 0 /\ xp0 = 0
    /\ RtOff /\ LdOff /\ MuOff /\ CfOff /\ RthOff /\ PfOff
    /\ rb = [buffer |-> [i \in 0..(LD2410_BUFFER_SIZE - 1) |-> 0], head |-> 0,
             tail |-> 0, unread |-> <<>>, added |-> 0, out |-> <<FALSE, 0>>]

\* a byte is added; the queue keeps its newest LD2410_BUFFER_SIZE - 1 bytes
RbAdd ==
    /\ rb.added < MaxRbAdds
    /\ LET b == rb.added % 256
       IN  rb' = [AddToBuffer(rb, b) EXCEPT
                     !.added = @ + 1,
                     !.unread = LastN(Append(rb.unread, b), LD2410_BUFFER_SIZE - 1)]

\* a byte is read
RbRead ==
    rb' = [ReadFromBuffer(rb) EXCEPT
              !.unread = IF rb.unread = <<>> THEN <<>> ELSE Tail(rb.unread)]

rbrest == <<dmvars, app_pc, human, drawer_closed, cmds, cfg, asyncvars, nbvars, mmvars,
            mpvars, stopped, tk, pl, past, xd, xcb, xnet, xp0, rt, ld, mu, cf, rth, pf>>

NextRb ==
    \/ RbAdd /\ UNCHANGED rbrest
    \/ RbRead /\ UNCHANGED rbrest

SpecRb == InitRb /\ [][NextRb]_vars

\* C32: a read returns the oldest unread byte, or failure when there is none; after
\* an add or a read head and tail are within the array and the bytes between tail
\* and head are the queue: the bytes added and not read, oldest first, without those
\* pushed out by more than LD2410_BUFFER_SIZE - 1 newer ones
C32_BufferIsBoundedFifo ==
    [][/\ RbRead => rb'.out = IF rb.unread = <<>> THEN <<FALSE, 0>>
                               ELSE <<TRUE, Head(rb.unread)>>
       /\ (RbAdd \/ RbRead) =>
             /\ rb'.head \in 0..(LD2410_BUFFER_SIZE - 1)
             /\ rb'.tail \in 0..(LD2410_BUFFER_SIZE - 1)
             /\ RbContents(rb') = rb'.unread]_vars

\* the buffer is full, bytes have been pushed out of it and the last read returned
\* a byte
C32_Witness ==
    /\ Len(rb.unread) = LD2410_BUFFER_SIZE - 1
    /\ rb.added > LD2410_BUFFER_SIZE
    /\ rb.out[1]
    /\ rb.head < rb.tail

(***************************************************************************)
(* config.json between the programs that write it and main_mode.py, which  *)
(* reads it at start-up.  A configuration is a mapping from keys to        *)
(* numbers; step_per_mm is held in tenths.  The board is reset between two *)
(* programs, which loses what a program held in memory but not the file.   *)
(***************************************************************************)
\* main_mode.py DEFAULT_CONFIG
DEFAULT_CONFIG ==
    [d_threshold |-> 1000, back_speed |-> 8100, forw_speed |-> 1100,
     wait_inside |-> 3000, steps_per_rev |-> 3200, step_per_mm |-> 256,
     d_out |-> 220, homing_speed |-> 500]

\* the keys main_mode.py reads from the configuration at start-up
RequiredKeys == DOMAIN DEFAULT_CONFIG

\* the configuration config_mode.main falls back to
ConfigModeDefault == [d_threshold |-> 1000, back_speed |-> 6000, forw_speed |-> 1000]

\* config.py load_config: default_config
default_config == [d_threshold |-> 1000, back_speed |-> 8100, forw_speed |-> 1100]

\* the keys config.py handle_request copies from a form
CfSettable == {"d_threshold", "back_speed", "forw_speed"}

\* the forms posted to config.py: the three sliders, or a request made by hand that
\* names a key the page does not show
CfPostValues == {500, 1500}

CfForms == UNION {[K -> CfPostValues] : K \in {CfSettable, {"d_threshold", "d_out"}}}

\* the form data posted to config_mode.main: one or two items key=value in the order
\* of the request; ok tells whether int(value) succeeds (value is then that number)
CfItems ==
    {[key |-> k, value |-> v, ok |-> TRUE] :
        k \in {"d_threshold", "back_speed", "d_out"}, v \in CfPostValues}
    \cup {[key |-> k, value |-> 0, ok |-> FALSE] : k \in {"d_threshold", "back_speed", "d_out"}}

CfPosts == {<<i>> : i \in CfItems} \cup {<<i, j>> : i, j \in CfItems}

\* config_mode.main, POST: the items are taken in order, only the keys the
\* configuration already has are updated, and int(value) raises ValueError on a
\* value that is no integer, which ends the update before the save
RECURSIVE ConfigModeUpdate(_, _)
ConfigModeUpdate(c, items) ==
    IF items = <<>> THEN [config |-> c, saved |-> TRUE]
    ELSE LET it == Head(items)
         IN  IF it.key \notin DOMAIN c THEN ConfigModeUpdate(c, Tail(items))
             ELSE IF it.ok
             THEN ConfigModeUpdate([c EXCEPT ![it.key] = it.value], Tail(items))
             ELSE [config |-> c, saved |-> FALSE]

\* config.py handle_request, POST: the three keys are copied from the form
ConfigPyUpdate(c, form) ==
    LET set == DOMAIN form \cap CfSettable
    IN  [k \in DOMAIN c \cup set |-> IF k \in set THEN form[k] ELSE c[k]]

InitCf ==
    /\ InitDM_Driver
    /\ app_pc = "init"
    /\ human = FALSE
    /\ drawer_closed = TRUE
    /\ cmds = 0
    /\ cfg = DefaultConfig
    /\ AsyncOff /\ NbOff /\ MmOff /\ MpOff
    /\ stopped = FALSE /\ tk = 0 /\ pl = 0 /\ past = 0
    /\ xd = NewStepperDM332T /\ xcb = [d |-> 0, at |-> "idle"] /\ xnet = 0 /\ xp0 = 0
    /\ RtOff /\ LdOff /\ MuOff /\ RthOff /\ ByteOff
    /\ cf = [file |-> NoConfig, exists |-> FALSE, loaded |-> NoConfig, at |-> "boot"]

\* boot.py with the configuration button pressed: config_mode.main up to its
\* server loop
CfConfigMode ==
    /\ cf.at = "boot"
    /\ cf' = [cf EXCEPT !.at = "config_mode",
                        !.loaded = IF cf.exists THEN cf.file ELSE ConfigModeDefault]

\* config_mode.main, a POST request: update, save, reset(); after a ValueError the
\* server goes on with the configuration as the update left it
CfConfigModePost(items) ==
    /\ cf.at = "config_mode"
    /\ LET r == ConfigModeUpdate(cf.loaded, items)
       IN  IF r.saved
           THEN cf' = [cf EXCEPT !.file = r.config,
                                 !.exists = TRUE,
                                 !.loaded = NoConfig,
                                 !.at = "boot"]
           ELSE cf' = [cf EXCEPT !.loaded = r.config]

\* config.py load_config on the file
ConfigPyLoad(c) ==
    IF c.exists THEN [c EXCEPT !.loaded = c.file]
    ELSE [c EXCEPT !.file = default_config, !.exists = TRUE, !.loaded = default_config]

\* config.py is started
CfConfigPy ==
    /\ cf.at = "boot"
    /\ cf' = [cf EXCEPT !.at = "config_py"]

\* config.py handle_request, a GET request: load_config for the page
CfConfigPyGet ==
    /\ cf.at = "config_py"
    /\ cf' = ConfigPyLoad(cf)

\* config.py handle_request, a POST request: load_config, update, save_config,
\* load_config for the page
CfConfigPyPost(form) ==
    /\ cf.at = "config_py"
    /\ LET c == ConfigPyUpdate(ConfigPyLoad(cf).loaded, form)
       IN  cf' = [cf EXCEPT !.file = c, !.exists = TRUE, !.loaded = c]

\* the board is reset or switched off and on
CfReset ==
    /\ cf.at \in {"config_mode", "config_py", "main", "crashed"}
    /\ cf' = [cf EXCEPT !.at = "boot", !.loaded = NoConfig]

\* main_mode.load_config
MainLoadConfig(c) ==
    IF c.exists THEN [c EXCEPT !.loaded = c.file]
    ELSE [c EXCEPT !.file = DEFAULT_CONFIG, !.exists = TRUE, !.loaded = DEFAULT_CONFIG]

\* main_mode.py is started: config = load_config(), and DEFAULT_CONFIG when that is
\* empty
CfMainLoad ==
    /\ cf.at = "boot"
    /\ LET c == MainLoadConfig(cf)
       IN  cf' = [c EXCEPT !.at = "main_loaded",
                           !.loaded = IF DOMAIN c.loaded = {} THEN DEFAULT_CONFIG
                                      ELSE c.loaded]

\* main_mode.py reads its parameters with config[key]: a missing key raises KeyError
CfMainRead ==
    /\ cf.at = "main_loaded"
    /\ cf' = [cf EXCEPT !.at = IF RequiredKeys \subseteq DOMAIN cf.loaded
                               THEN "main" ELSE "crashed"]

cfrest == <<dmvars, app_pc, human, drawer_closed, cmds, cfg, asyncvars, nbvars, mmvars,
            mpvars, stopped, tk, pl, past, xd, xcb, xnet, xp0, rt, ld, mu, rth, bytevars>>

NextCf ==
    \/ CfConfigMode /\ UNCHANGED cfrest
    \/ (\E items \in CfPosts : CfConfigModePost(items)) /\ UNCHANGED cfrest
    \/ CfConfigPy /\ UNCHANGED cfrest
    \/ CfConfigPyGet /\ UNCHANGED cfrest
    \/ (\E form \in CfForms : CfConfigPyPost(form)) /\ UNCHANGED cfrest
    \/ CfReset /\ UNCHANGED cfrest
    \/ CfMainLoad /\ UNCHANGED cfrest
    \/ CfMainRead /\ UNCHANGED cfrest

SpecCf == InitCf /\ [][NextCf]_vars

\* C30: whatever the configuration programs did before, the mapping main_mode.py
\* has loaded at start-up holds every key it is about to read
C30_LoadedConfigComplete ==
    cf.at = "main_loaded" => RequiredKeys \subseteq DOMAIN cf.loaded

\* C38: a POST to config_mode.main with a value that is no integer leaves the
\* configuration in memory and config.json as they were and does not reset the board
C38_BadPostChangesNothing ==
    [][\A items \in CfPosts :
          (CfConfigModePost(items) /\ \E i \in DOMAIN items : ~items[i].ok)
             => cf' = cf]_vars

\* the stepper as the control programs set it up: constructor with the configured
\* steps per mm, set_acceleration, set_deceleration, enable_acceleration, enable
ConfiguredStepper(c) ==
    Enable(EnableAcceleration(SetDeceleration(SetAcceleration(
               [NewStepper EXCEPT !.steps_per_mm = c.step_per_mm],
               AppAcceleration), AppDeceleration)), TRUE)

(***************************************************************************)
(* main_mode_multithread.py: read_radar and drawer_controller are two      *)
(* tasks of one asyncio loop.  A task runs until it awaits; home() and     *)
(* move_mm() contain no await, so the controller is not suspended in them. *)
(* Time is counted in periods of read_radar's sleep_ms(100).               *)
(***************************************************************************)
InitMu ==
    /\ InitDM_Driver
    /\ app_pc = "init"
    /\ human = TRUE
    /\ drawer_closed = TRUE
    /\ cmds = 0
    /\ cfg = DefaultConfig
    /\ AsyncOff /\ NbOff /\ MmOff /\ MpOff
    /\ stopped = FALSE /\ tk = 0 /\ pl = 0 /\ past = 0
    /\ xd = NewStepperDM332T /\ xcb = [d |-> 0, at |-> "idle"] /\ xnet = 0 /\ xp0 = 0
    /\ RtOff /\ LdOff /\ CfOff /\ RthOff /\ ByteOff
    /\ mu = [ctrl |-> "start", radar |-> "ready", op |-> "none", ticks |-> 0,
             sampled |-> FALSE, r_d |-> 0]

\* the controller enters a blocking call
MuBlock(m, op) ==
    [m EXCEPT !.ctrl = "blocked", !.op = op, !.ticks = 0, !.sampled = FALSE]

\* read_radar, one turn of its loop with the radar reporting r; it runs only when
\* the controller is not running
MuRadar(r) ==
    /\ mu.radar = "ready"
    /\ mu.ctrl \in {"start", "ready", "sleep"}
    /\ LET d == IF r = "near" THEN NearMm ELSE FarMm
       IN  /\ human' = IF r = "none" THEN human ELSE d < cfg.d_threshold
           /\ mu' = [mu EXCEPT !.radar = "sleep", !.sampled = TRUE,
                               !.r_d = IF r = "none" THEN @ ELSE d]
    /\ UNCHANGED <<s, end_s, drawer_closed, cmds>>

\* read_radar's sleep_ms(100) is over
MuRadarDue ==
    /\ mu.radar = "sleep"
    /\ mu.ctrl # "crashed"
    /\ mu' = [mu EXCEPT !.radar = "ready"]
    /\ UNCHANGED <<s, end_s, human, drawer_closed, cmds>>

\* drawer_controller's sleep_ms(100) is over
MuCtrlDue ==
    /\ mu.ctrl = "sleep"
    /\ mu' = [mu EXCEPT !.ctrl = "ready"]
    /\ UNCHANGED <<s, end_s, human, drawer_closed, cmds>>

\* drawer_controller up to the start-up home(), which it enters
MuStart ==
    /\ mu.ctrl = "start"
    /\ mu.radar # "ready"
    /\ s' = ConfiguredStepper(cfg)
    /\ mu' = MuBlock(mu, "home")
    /\ cmds' = (cmds + 1) % 4
    /\ UNCHANGED <<end_s, human, drawer_closed>>

\* one radar period passes while the controller is in home() or move_mm(): the
\* radar task's sleep is over, and the task waits for the controller to await
MuTick ==
    /\ mu.ctrl = "blocked"
    /\ mu.ticks < MaxMoveTicks
    /\ mu' = [mu EXCEPT !.ticks = @ + 1, !.radar = "ready"]
    /\ UNCHANGED <<s, end_s, human, drawer_closed, cmds>>

\* the drawer reaches or leaves the home switch during home()
MuSwitch ==
    /\ mu.ctrl = "blocked"
    /\ mu.op \in {"home", "close_home"}
    /\ end_s' = 1 - end_s
    /\ UNCHANGED <<s, human, drawer_closed, cmds, mu>>

\* the blocking call returns: home() when the switch is triggered, move_mm(-200)
\* after the time its steps take; the controller goes on without awaiting
MuBlockEnd ==
    /\ mu.ctrl = "blocked"
    /\ IF mu.op = "move_mm" THEN mu.ticks >= 1 ELSE end_s = 0
    /\ IF mu.op = "home"
       THEN /\ drawer_closed' = TRUE
            /\ mu' = [mu EXCEPT !.ctrl = "loop", !.op = "none"]
            /\ UNCHANGED <<s, cmds>>
       ELSE IF mu.op = "move_mm"
       THEN /\ mu' = MuBlock(mu, "close_home")
            /\ cmds' = (cmds + 1) % 4
            /\ UNCHANGED <<s, drawer_closed>>
       ELSE /\ drawer_closed' = TRUE
            /\ s' = Disable(s)
            /\ mu' = [mu EXCEPT !.ctrl = "sleep", !.op = "none"]
            /\ UNCHANGED cmds
    /\ UNCHANGED <<end_s, human>>

\* one turn of drawer_controller's loop up to its blocking call or its sleep;
\* DM332TStepper has no move_to_mm method, so opening raises AttributeError
MuLoop ==
    /\ mu.ctrl \in {"ready", "loop"}
    /\ IF human /\ ~drawer_closed
       THEN /\ s' = SetSpeed(Enable(s, TRUE), cfg.back_speed)
            /\ mu' = MuBlock(mu, "move_mm")
            /\ cmds' = (cmds + 1) % 4
       ELSE IF ~human /\ drawer_closed
       THEN /\ s' = SetSpeed(Enable(s, TRUE), cfg.forw_speed)
            /\ mu' = [mu EXCEPT !.ctrl = "crashed"]
            /\ UNCHANGED cmds
       ELSE /\ mu' = [mu EXCEPT !.ctrl = "sleep"]
            /\ UNCHANGED <<s, cmds>>
    /\ UNCHANGED <<end_s, human, drawer_closed>>

murest == <<pc, loop_i, ret, cb_pc, orig, backoff, pulses, pos0, req, calls, ivals,
            app_pc, cfg, asyncvars, nbvars, mmvars, mpvars, stopped, tk, pl, past,
            xd, xcb, xnet, xp0, rt, ld, cf, rth, bytevars>>

NextMu ==
    \/ (\E r \in {"none", "near", "far"} : MuRadar(r)) /\ UNCHANGED murest
    \/ MuRadarDue /\ UNCHANGED murest
    \/ MuCtrlDue /\ UNCHANGED murest
    \/ MuStart /\ UNCHANGED murest
    \/ MuTick /\ UNCHANGED murest
    \/ MuSwitch /\ UNCHANGED murest
    \/ MuBlockEnd /\ UNCHANGED murest
    \/ MuLoop /\ UNCHANGED murest

SpecMu == InitMu /\ [][NextMu]_vars

\* C26: when a home() or move_mm() of drawer_controller that has lasted at least one
\* radar period returns, read_radar has run a turn of its loop since the call began
C26_RadarSamplesDuringMove ==
    [][(MuBlockEnd /\ mu.ticks >= 1) => mu.sampled]_vars

(***************************************************************************)
(* main_mode_async.py: the radar task, the controller task and the move    *)
(* tasks on one asyncio loop.  A task runs from one await to the next      *)
(* without interruption.  The loop keeps its tasks ordered by wake-up      *)
(* time and runs the first one when it is due: create_task queues the new  *)
(* task with the present time, sleep_ms(100) queues the running task 100   *)
(* ms ahead.  The coroutines move_to_mm_async, move_mm_async and           *)
(* home_async of DM332T_async suspend the awaiting task a number of times, *)
(* each time for at most 100 ms, and then complete.                        *)
(***************************************************************************)
InsertAt(q, i, t) == SubSeq(q, 1, i) \o <<t>> \o SubSeq(q, i + 1, Len(q))

\* task t is the first of the queue and due: the loop runs it next
Ready(t) == nready >= 1 /\ queue # <<>> /\ Head(queue) = t

\* the task is inside an awaited stepper coroutine
Awaiting(t) ==
    IF t = "ctrl" THEN app_pc = "homing"
    ELSE t \in MoveTasks /\ mt[t].pc \in {"move", "home"}

\* await asyncio.sleep_ms(100): the running task is queued behind every other task,
\* none of which wakes up later than 100 ms from now
Sleep100(q, t) == Append(q, t)

\* main(): the radar task and the controller task are created
InitAsync ==
    /\ InitDM_Driver
    /\ app_pc = "init"
    /\ human = TRUE
    /\ drawer_closed = TRUE
    /\ cmds = 0
    /\ cfg = DefaultConfig
    /\ NbOff /\ MmOff /\ MpOff /\ AuxOff
    /\ drawer_moving = FALSE
    /\ queue = <<"radar", "ctrl">>
    /\ nready = 2
    /\ mt = [m \in MoveTasks |-> [kind |-> "none", pc |-> "free"]]
    /\ wait = [t \in MoveTasks \cup {"ctrl"} |-> 0]
    /\ flips = 0

\* time passes: the next task of the queue becomes due
AsyncDue ==
    /\ nready < Len(queue)
    /\ nready' = nready + 1
    /\ UNCHANGED <<app_pc, human, drawer_moving, drawer_closed, queue, mt, wait, flips>>

\* read_radar, one turn of its loop; the frame read shows no stationary target,
\* one nearer than the threshold, or one farther
ReadRadar ==
    /\ Ready("radar")
    /\ \E r \in {"none", "near", "far"} :
          LET h == IF r = "near" THEN TRUE ELSE IF r = "far" THEN FALSE ELSE human
          IN  /\ h # human => flips < MaxFlips
              /\ human' = h
              /\ flips' = IF h # human THEN flips + 1 ELSE flips
    /\ queue' = Sleep100(Tail(queue), "radar")
    /\ nready' = nready - 1
    /\ UNCHANGED <<app_pc, drawer_moving, drawer_closed, mt, wait>>

\* drawer_controller up to its first await: the start-up homing begins
ControllerStart ==
    /\ Ready("ctrl")
    /\ app_pc = "init"
    /\ drawer_moving' = TRUE
    /\ app_pc' = "homing"
    /\ \E k \in 0..MaxYield : wait' = [wait EXCEPT !["ctrl"] = k]
    /\ UNCHANGED <<human, drawer_closed, queue, nready, mt, flips>>

\* an awaited stepper coroutine suspends task t once more
Suspend(t) ==
    /\ Ready(t)
    /\ Awaiting(t)
    /\ wait[t] > 0
    /\ wait' = [wait EXCEPT ![t] = wait[t] - 1]
    /\ \E i \in (nready - 1)..Len(Tail(queue)) : queue' = InsertAt(Tail(queue), i, t)
    /\ nready' = nready - 1
    /\ UNCHANGED <<app_pc, human, drawer_moving, drawer_closed, mt, flips>>

\* drawer_controller: home_async has returned
ControllerHomed ==
    /\ Ready("ctrl")
    /\ app_pc = "homing"
    /\ wait["ctrl"] = 0
    /\ drawer_moving' = FALSE
    /\ drawer_closed' = TRUE
    /\ app_pc' = "loop"
    /\ UNCHANGED <<human, queue, nready, mt, wait, flips>>

\* the conditions of the controller's loop
CanStartMove_Always == TRUE

CanStartMove == ~drawer_moving

WantsClose == human /\ ~drawer_closed

WantsOpen_WhenOpen == ~human /\ ~drawer_closed

WantsOpen == ~human /\ drawer_closed

FreeSlot == IF mt["m1"].pc = "free" THEN "m1" ELSE "m2"

\* drawer_controller, one turn of its loop
ControllerLoop ==
    /\ Ready("ctrl")
    /\ app_pc = "loop"
    /\ LET kind == IF CanStartMove /\ WantsClose THEN "close"
                   ELSE IF CanStartMove /\ WantsOpen THEN "open"
                   ELSE "none"
           nr == nready - 1
       IN  IF kind = "none"
           THEN /\ queue' = Sleep100(Tail(queue), "ctrl")
                /\ nready' = nr
                /\ UNCHANGED <<drawer_closed, mt>>
           ELSE /\ mt[FreeSlot].pc = "free"
                /\ mt' = [mt EXCEPT ![FreeSlot] = [kind |-> kind, pc |-> "new"]]
                /\ drawer_closed' = (kind = "close")
                /\ queue' = Sleep100(InsertAt(Tail(queue), nr, FreeSlot), "ctrl")
                /\ nready' = nr + 1
    /\ UNCHANGED <<app_pc, human, drawer_moving, wait, flips>>

\* move_drawer_open / move_drawer_close up to the first await
MoveStart(m) ==
    /\ Ready(m)
    /\ mt[m].pc = "new"
    /\ drawer_moving' = TRUE
    /\ mt' = [mt EXCEPT ![m].pc = "move"]
    /\ \E k \in 0..MaxYield : wait' = [wait EXCEPT ![m] = k]
    /\ UNCHANGED <<app_pc, human, drawer_closed, queue, nready, flips>>

\* move_drawer_close: move_mm_async has returned, home_async is awaited
MoveThenHome(m) ==
    /\ Ready(m)
    /\ mt[m].pc = "move" /\ mt[m].kind = "close"
    /\ wait[m] = 0
    /\ mt' = [mt EXCEPT ![m].pc = "home"]
    /\ \E k \in 0..MaxYield : wait' = [wait EXCEPT ![m] = k]
    /\ UNCHANGED <<app_pc, human, drawer_moving, drawer_closed, queue, nready, flips>>

\* move_drawer_open / move_drawer_close: the last await has returned, the task ends
MoveEnd(m) ==
    /\ Ready(m)
    /\ \/ mt[m].pc = "move" /\ mt[m].kind = "open"
       \/ mt[m].pc = "home"
    /\ wait[m] = 0
    /\ drawer_moving' = FALSE
    /\ mt' = [mt EXCEPT ![m] = [kind |-> "none", pc |-> "free"]]
    /\ queue' = Tail(queue)
    /\ nready' = nready - 1
    /\ UNCHANGED <<app_pc, human, drawer_closed, wait, flips>>

\* what main_mode_async.py leaves alone
asyncrest == <<dmvars, cmds, cfg, nbvars, mmvars, mpvars, auxvars>>

NextAsync ==
    \/ AsyncDue /\ UNCHANGED asyncrest
    \/ ReadRadar /\ UNCHANGED asyncrest
    \/ ControllerStart /\ UNCHANGED asyncrest
    \/ (\E t \in MoveTasks \cup {"ctrl"} : Suspend(t)) /\ UNCHANGED asyncrest
    \/ ControllerHomed /\ UNCHANGED asyncrest
    \/ ControllerLoop /\ UNCHANGED asyncrest
    \/ (\E m \in MoveTasks : MoveStart(m)) /\ UNCHANGED asyncrest
    \/ (\E m \in MoveTasks : MoveThenHome(m)) /\ UNCHANGED asyncrest
    \/ (\E m \in MoveTasks : MoveEnd(m)) /\ UNCHANGED asyncrest

SpecAsync == InitAsync /\ [][NextAsync]_vars

\* the loop runs a due task, and time does not stop
SpecAsyncFair == SpecAsync /\ WF_vars(NextAsync)

\* the move tasks that have been created and have not ended
LiveMoves == {m \in MoveTasks : mt[m].pc # "free"}

\* C1: at most one drawer move is in progress: never two move tasks alive (created
\* and not ended), and none alive while the start-up homing runs.
C1_OneMoveAtATime ==
    Cardinality(LiveMoves) + (IF app_pc = "homing" THEN 1 ELSE 0) <= 1

\* a person is present again while the drawer is opening, and the controller is
\* about to run: only drawer_moving holds the close back
C1_Witness ==
    /\ mt["m1"] = [kind |-> "open", pc |-> "move"]
    /\ human /\ ~drawer_closed /\ drawer_moving
    /\ app_pc = "loop" /\ Ready("ctrl")

\* C2: once human has stopped changing, the controller reaches and stays in a state
\* with no move in progress and the drawer closed exactly when a person is present.
C2_SettlesToPresence == <>[](~drawer_moving /\ drawer_closed = human)

\* the drawer has settled open after the last change of human
C2_Witness ==
    /\ flips = MaxFlips /\ ~human /\ ~drawer_closed /\ ~drawer_moving
    /\ LiveMoves = {} /\ app_pc = "loop"


(***************************************************************************)
(* main_mode_non_block.py: the controller task drives a NonBlockingStepper *)
(* wrapped around a DM332TStepper and calls its update() once per turn;    *)
(* the radar task sets human.  Awaiting update(), home_non_blocking() or   *)
(* move_to_mm_non_blocking() does not suspend the controller: it runs from *)
(* one sleep_ms to the next without interruption.                          *)
(***************************************************************************)
\* NonBlockingStepper.home_non_blocking
HomeNonBlocking(n) == [n EXCEPT !.is_homing = TRUE, !.is_moving = TRUE]

\* NonBlockingStepper.move_to_mm_non_blocking
MoveToMmNonBlocking(n, mm10) ==
    [n EXCEPT !.target_mm = mm10, !.is_moving = TRUE, !.is_homing = FALSE]

\* NonBlockingStepper.update() on wrapper n and stepper st, with the home switch
\* reading sw; due: step_delay_ms have passed since the last step.  DM332TStepper
\* has no set_dir and no step method, and no position attribute before update()
\* itself has set one: using them raises AttributeError (crashed).  current_mm is
\* computed from that position attribute, in tenths of a millimetre.
NbUpdate(n, st, sw, due) ==
    IF ~n.is_moving \/ ~due THEN [nb |-> n, s |-> st, crashed |-> FALSE]
    ELSE IF n.is_homing
    THEN IF sw = 0
         THEN [nb |-> [n EXCEPT !.is_homing = FALSE, !.is_moving = FALSE,
                                !.current_mm = 0, !.has_position = TRUE],
               s |-> st, crashed |-> FALSE]
         ELSE [nb |-> n, s |-> st, crashed |-> TRUE]
    ELSE IF ~n.has_position THEN [nb |-> n, s |-> st, crashed |-> TRUE]
    ELSE LET m == [n EXCEPT !.current_mm = Trunc(0 * 100, st.steps_per_mm)]
         IN  IF Abs(m.current_mm - m.target_mm) < 1
             THEN [nb |-> [m EXCEPT !.is_moving = FALSE], s |-> st, crashed |-> FALSE]
             ELSE IF m.current_mm < m.target_mm
             THEN [nb |-> m, s |-> MoveMm(st, 1), crashed |-> FALSE]
             ELSE [nb |-> m, s |-> MoveMm(st, -1), crashed |-> FALSE]

\* a command is issued only when the wrapper is not moving
NbIdle_Always(n) == TRUE

NbIdle(n) == ~n.is_moving

InitNonBlock ==
    /\ InitDM_Driver
    /\ app_pc = "init"
    /\ human = TRUE
    /\ drawer_closed = TRUE
    /\ cmds = 0
    /\ \E dout \in {0, 2200} : cfg = [DefaultConfig EXCEPT !.d_out = dout]
    /\ AsyncOff /\ NbOff /\ MmOff /\ MpOff /\ AuxOff

\* read_radar, one turn of its loop, while the controller sleeps
NbPoll(r) ==
    /\ app_pc \in {"init", "homing_sleep", "loop_sleep"}
    /\ human' = (r = "near")
    /\ UNCHANGED <<s, end_s, app_pc, drawer_closed, cmds, nbvars>>

NbReadRadar == \E r \in {"none", "near", "far"} : NbPoll(r)

\* the home switch opens or closes
NbSwitch ==
    /\ app_pc \in {"init", "homing_sleep", "loop_sleep"}
    /\ end_s' = 1 - end_s
    /\ UNCHANGED <<s, app_pc, human, drawer_closed, cmds, nbvars>>

\* drawer_controller up to its while loop: the start-up homing is commanded
NbStart ==
    /\ app_pc = "init"
    /\ s' = SetSpeed(Enable(ConfiguredStepper(cfg), TRUE), cfg.homing_speed)
    /\ nb' = HomeNonBlocking(nb)
    /\ cmds' = (cmds + 1) % 4
    /\ app_pc' = "homing"
    /\ UNCHANGED <<end_s, human, drawer_closed, drawer_target_state, cooled>>

\* while nb_stepper.is_homing: update(), then sleep_ms(1)
NbHomingUpdate ==
    /\ app_pc = "homing"
    /\ \E due \in BOOLEAN :
          LET u == NbUpdate(nb, s, end_s, due)
          IN  /\ nb' = u.nb
              /\ s' = u.s
              /\ app_pc' = IF u.crashed THEN "crashed" ELSE "homing_sleep"
    /\ UNCHANGED <<end_s, human, drawer_closed, cmds, drawer_target_state, cooled>>

\* the test of the while loop after the sleep; when it fails, the state is set up
\* for the main loop
NbHomingNext ==
    /\ app_pc = "homing_sleep"
    /\ IF nb.is_homing
       THEN /\ app_pc' = "homing"
            /\ UNCHANGED <<drawer_closed, drawer_target_state, cooled>>
       ELSE /\ drawer_closed' = TRUE
            /\ drawer_target_state' = TRUE
            /\ cooled' = FALSE
            /\ app_pc' = "loop_sleep"
    /\ UNCHANGED <<s, end_s, human, cmds, nb>>

\* one turn of the main loop, first part: current_time is read (more than 500 ms may
\* have passed since last_state_change) and update() is called
NbLoopUpdate ==
    /\ app_pc = "loop_sleep"
    /\ Abs(s.current_position_steps) <= MaxTravel
    /\ \E c \in (IF cooled THEN {TRUE} ELSE BOOLEAN) : cooled' = c
    /\ \E due \in BOOLEAN :
          LET u == NbUpdate(nb, s, end_s, due)
          IN  /\ nb' = u.nb
              /\ s' = u.s
              /\ app_pc' = IF u.crashed THEN "crashed" ELSE "decide"
    /\ UNCHANGED <<end_s, human, drawer_closed, cmds, drawer_target_state>>

\* one turn of the main loop, second part: the end of a movement is noted and a new
\* one is commanded, then sleep_ms(5)
NbLoopDecide ==
    /\ app_pc = "decide"
    /\ LET finished == nb.is_moving = FALSE /\ drawer_target_state # drawer_closed
           closed == IF finished THEN drawer_target_state ELSE drawer_closed
           s1 == IF finished THEN Disable(s) ELSE s
       IN  /\ drawer_closed' = closed
           /\ IF human /\ ~closed /\ NbIdle(nb) /\ cooled
              THEN /\ s' = SetSpeed(Enable(Enable(s1, TRUE), TRUE), cfg.homing_speed)
                   /\ nb' = HomeNonBlocking(nb)
                   /\ drawer_target_state' = TRUE
                   /\ cooled' = FALSE
                   /\ cmds' = (cmds + 1) % 4
              ELSE IF ~human /\ closed /\ NbIdle(nb) /\ cooled
              THEN /\ s' = SetSpeed(Enable(Enable(s1, TRUE), TRUE), cfg.forw_speed)
                   /\ nb' = MoveToMmNonBlocking(nb, cfg.d_out)
                   /\ drawer_target_state' = FALSE
                   /\ cooled' = FALSE
                   /\ cmds' = (cmds + 1) % 4
              ELSE /\ s' = s1
                   /\ UNCHANGED <<nb, drawer_target_state, cooled, cmds>>
    /\ app_pc' = "loop_sleep"
    /\ UNCHANGED <<end_s, human>>

\* what main_mode_non_block.py leaves alone
nbrest == <<pc, loop_i, ret, cb_pc, orig, backoff, pulses, pos0, req, calls, ivals,
            cfg, asyncvars, mmvars, mpvars, auxvars>>

NextNonBlock ==
    \/ NbReadRadar /\ UNCHANGED nbrest
    \/ NbSwitch /\ UNCHANGED nbrest
    \/ NbStart /\ UNCHANGED nbrest
    \/ NbHomingUpdate /\ UNCHANGED nbrest
    \/ NbHomingNext /\ UNCHANGED nbrest
    \/ NbLoopUpdate /\ UNCHANGED nbrest
    \/ NbLoopDecide /\ UNCHANGED nbrest

SpecNonBlock == InitNonBlock /\ [][NextNonBlock]_vars

\* C3: while nb_stepper.is_moving is true no command is issued and drawer_closed and
\* drawer_target_state stay as they are, whatever human does; drawer_closed changes
\* only to the target state, in a turn of the loop in which is_moving is false; and
\* a command issued in the loop is the one that the present value of human asks for.
C3_NoCommandWhileMoving ==
    [][/\ nb.is_moving =>
             UNCHANGED <<drawer_closed, drawer_target_state, cmds>>
       /\ drawer_closed' # drawer_closed =>
             app_pc = "decide" /\ ~nb.is_moving /\ drawer_closed' = drawer_target_state
       /\ (app_pc = "decide" /\ cmds' # cmds) =>
             drawer_target_state' = human]_vars

\* the drawer is being opened and has made steps, human has changed and is false
\* again, and the cooldown is over: only is_moving holds a second open command back
C3_Witness ==
    /\ app_pc = "decide" /\ nb.is_moving /\ ~nb.is_homing
    /\ ~human /\ cooled /\ drawer_closed /\ ~drawer_target_state
    /\ s.current_position_steps >= 4

\* C28: a turn of read_radar in which no target is detected leaves human as it was
C28_NoTargetKeepsDecision == [][NbPoll("none") => human' = human]_vars


(***************************************************************************)
(* main_mode_non_block.py with its controller task scheduled again and     *)
(* again.  A turn of the main loop comes sleep_ms(5) after the one before, *)
(* which is more than step_delay_ms: update() is always due.  update()     *)
(* reads nothing of the driver's position counter, and positions beyond    *)
(* MaxTravel are not told apart.                                           *)
(***************************************************************************)
NbSaturate(st) ==
    IF st.current_position_steps > MaxTravel
    THEN [st EXCEPT !.current_position_steps = MaxTravel,
                    !.target_position_steps = MaxTravel]
    ELSE st

\* one turn of the main loop, first part
NbLoopTurn ==
    /\ app_pc = "loop_sleep"
    /\ \E c \in (IF cooled THEN {TRUE} ELSE BOOLEAN) : cooled' = c
    /\ LET u == NbUpdate(nb, s, end_s, TRUE)
       IN  /\ nb' = u.nb
           /\ s' = NbSaturate(u.s)
           /\ app_pc' = IF u.crashed THEN "crashed" ELSE "decide"
    /\ UNCHANGED <<end_s, human, drawer_closed, cmds, drawer_target_state>>

NbController ==
    (NbStart \/ NbHomingUpdate \/ NbHomingNext \/ NbLoopTurn \/ NbLoopDecide)
       /\ UNCHANGED nbrest

NextNbRun ==
    \/ NbReadRadar /\ UNCHANGED nbrest
    \/ NbSwitch /\ UNCHANGED nbrest
    \/ NbStart /\ UNCHANGED nbrest
    \/ NbHomingUpdate /\ UNCHANGED nbrest
    \/ NbHomingNext /\ UNCHANGED nbrest
    \/ NbLoopTurn /\ UNCHANGED nbrest
    \/ NbLoopDecide /\ UNCHANGED nbrest

SpecNbRun == InitNonBlock /\ [][NextNbRun]_vars /\ WF_vars(NbController)

\* C35: an open move that has been commanded is followed by a turn of the loop in
\* which update() has set is_moving to False with the axis within 0.1 mm of target_mm
C35_OpenMoveCompletes ==
    (nb.is_moving /\ ~nb.is_homing /\ app_pc # "crashed")
       ~> (/\ ~nb.is_moving
           /\ Abs(s.current_position_steps * 100 - nb.target_mm * s.steps_per_mm)
                 < s.steps_per_mm)

(***************************************************************************)
(* main_mode.py: the main thread homes the drawer and then runs the main   *)
(* loop; the radar thread sets motion_detected.  The start-up home() is    *)
(* followed step by step (timer callbacks, switch, backoff move).          *)
(***************************************************************************)
InitMain ==
    /\ InitDM_Driver
    /\ app_pc = "init"
    /\ human = TRUE
    /\ drawer_closed = TRUE
    /\ cmds = 0
    /\ cfg = DefaultConfig
    /\ AsyncOff /\ NbOff /\ MmOff /\ MpOff /\ AuxOff

\* radar_thread, one turn of its loop: the frame shows no moving target, one nearer
\* than the threshold, or one farther
MmPoll(r) ==
    /\ app_pc # "init"
    /\ radar_d' = IF r = "near" THEN NearMm
                  ELSE IF r = "far" THEN FarMm ELSE radar_d
    /\ motion_detected' =
           IF r = "none" THEN FALSE
           ELSE IF radar_d' < cfg.d_threshold THEN TRUE ELSE motion_detected
    /\ UNCHANGED <<dmvars, app_pc, drawer_closed, drawer_state_change>>

MmRadar == \E r \in {"none", "near", "far"} : MmPoll(r)

\* the module body up to home(): the stepper is set up, the radar thread started
MmStart ==
    /\ app_pc = "init"
    /\ s' = ConfiguredStepper(cfg)
    /\ app_pc' = "start"
    /\ UNCHANGED <<end_s, pc, loop_i, ret, cb_pc, orig, backoff, pulses, pos0, req,
                   calls, ivals, motion_detected, drawer_closed, drawer_state_change, radar_d>>

\* s.home(end_s, homing_speed=homing_speed, acceleration=1000) is entered
MmHome ==
    /\ app_pc = "start"
    /\ DM_Home(cfg.homing_speed, HomeBackoff, AppAcceleration)
    /\ app_pc' = "homing"
    /\ UNCHANGED <<motion_detected, drawer_closed, drawer_state_change, radar_d>>

\* home() has returned
MmHomed ==
    /\ app_pc = "homing"
    /\ ClientIdle
    /\ drawer_closed' = TRUE
    /\ app_pc' = "loop"
    /\ UNCHANGED <<dmvars, motion_detected, drawer_state_change, radar_d>>

\* one turn of the main loop up to its sleep_ms(200); the close branch homes with
\* the switch triggered at once
MmLoop ==
    /\ app_pc = "loop"
    /\ IF drawer_state_change
       THEN /\ drawer_state_change' = FALSE
            /\ IF motion_detected /\ ~drawer_closed
               THEN LET m == MoveMm(Enable(s, TRUE), 30)
                        h == HomeEnter(m, cfg.homing_speed, AppAcceleration)
                    IN  /\ s' = Disable(HomeFinish(h, OriginalSettings(m), HomeBackoff))
                        /\ drawer_closed' = TRUE
               ELSE IF ~motion_detected /\ drawer_closed
               THEN /\ s' = Disable(MoveMm(Enable(s, TRUE), cfg.d_out))
                    /\ drawer_closed' = FALSE
               ELSE UNCHANGED <<s, drawer_closed>>
       ELSE UNCHANGED <<s, drawer_closed, drawer_state_change>>
    /\ app_pc' = "sleep"
    /\ UNCHANGED <<end_s, pc, loop_i, ret, cb_pc, orig, backoff, pulses, pos0, req,
                   calls, ivals, motion_detected, radar_d>>

\* the sleep is over
MmSleep ==
    /\ app_pc = "sleep"
    /\ app_pc' = "loop"
    /\ UNCHANGED <<dmvars, motion_detected, drawer_closed, drawer_state_change, radar_d>>

\* what main_mode.py leaves alone
mmrest == <<human, cmds, cfg, asyncvars, nbvars, mpvars, auxvars>>

\* the steps of the main thread
MmMainThread ==
    \/ MmStart /\ UNCHANGED mmrest
    \/ MmHome /\ UNCHANGED mmrest
    \/ HomeTriggered /\ UNCHANGED appvars
    \/ MsCompute /\ UNCHANGED appvars
    \/ MsHigh /\ UNCHANGED appvars
    \/ MsLow /\ UNCHANGED appvars
    \/ MsCount /\ UNCHANGED appvars
    \/ HomeEnd /\ UNCHANGED appvars
    \/ MmHomed /\ UNCHANGED mmrest
    \/ MmLoop /\ UNCHANGED mmrest
    \/ MmSleep /\ UNCHANGED mmrest

NextMain ==
    \/ MmMainThread
    \/ MmRadar /\ UNCHANGED mmrest
    \/ TimerFire /\ UNCHANGED appvars
    \/ TimerLow /\ UNCHANGED appvars
    \/ TimerCount /\ UNCHANGED appvars
    \/ SwitchChange /\ UNCHANGED appvars

SpecMain == InitMain /\ [][NextMain]_vars

\* the main thread keeps running
SpecMainFair == SpecMain /\ WF_vars(MmMainThread)

\* C4: once the drawer is homed and the radar thread keeps reporting no presence,
\* the main loop opens the drawer: the position becomes trunc(d_out * steps_per_mm)
\* and drawer_closed becomes false.
C4_OpensWhenAbsent ==
    <>[](app_pc \in {"loop", "sleep"} /\ ~motion_detected)
        => <>(/\ ~drawer_closed
              /\ s.current_position_steps = MmToSteps(cfg.d_out, cfg.step_per_mm))

\* C27: after every poll of radar_thread motion_detected equals (a moving target
\* is detected and its distance radar_d is below the threshold); a detected target
\* at or beyond the threshold gives motion_detected = False
C27_MotionFlagFollowsPoll ==
    [][\A r \in {"none", "near", "far"} :
          MmPoll(r) => (motion_detected' <=> (r # "none" /\ radar_d' < cfg.d_threshold))]_vars

(***************************************************************************)
(* main_mode_nonedex.py: the main thread homes the drawer and then runs    *)
(* the main loop; the radar thread sets human.  Each home() is followed    *)
(* step by step.                                                           *)
(***************************************************************************)
InitNonedex ==
    /\ InitDM_Driver
    /\ app_pc = "init"
    /\ human = TRUE
    /\ drawer_closed = TRUE
    /\ cmds = 0
    /\ cfg = [DefaultConfig EXCEPT !.step_per_mm = SmallStepPerMm10, !.d_out = SmallDOut]
    /\ AsyncOff /\ NbOff /\ MmOff /\ MpOff /\ AuxOff

\* r_thread, one turn of its loop: the two reads and the assignment to r_d ...
NdxRadarDist ==
    /\ app_pc # "init"
    /\ rth.at = "read"
    /\ \E d \in RadarMm : rth' = [at |-> "decide", r_d |-> d]
    /\ UNCHANGED <<dmvars, app_pc, human, drawer_closed>>

\* ... and the assignment to human, followed by sleep_ms(20)
NdxRadarHuman ==
    /\ rth.at = "decide"
    /\ human' = (rth.r_d < cfg.d_threshold)
    /\ rth' = [rth EXCEPT !.at = "read"]
    /\ UNCHANGED <<dmvars, app_pc, drawer_closed>>

\* the home switch changes while no home() is waiting for it
NdxSwitch ==
    /\ app_pc \in {"loop", "close_check"}
    /\ end_s' = 1 - end_s
    /\ UNCHANGED <<s, pc, loop_i, ret, cb_pc, orig, backoff, pulses, pos0, req, calls,
                   ivals, app_pc, human, drawer_closed>>

\* the module body up to home(): the stepper is set up, the radar thread started
NdxStart ==
    /\ app_pc = "init"
    /\ s' = ConfiguredStepper(cfg)
    /\ app_pc' = "start"
    /\ UNCHANGED <<end_s, pc, loop_i, ret, cb_pc, orig, backoff, pulses, pos0, req,
                   calls, ivals, human, drawer_closed>>

\* s.home(end_s) is entered, at the start or in a close sequence with the switch
\* released
NdxHome ==
    /\ \/ app_pc = "start" /\ app_pc' = "homing"
       \/ app_pc = "close_check" /\ end_s = 1 /\ app_pc' = "close_home"
    /\ DM_Home(AppSpeed, HomeBackoff, 0)
    /\ UNCHANGED <<human, drawer_closed>>

\* the start-up home() has returned
NdxHomed ==
    /\ app_pc = "homing"
    /\ ClientIdle
    /\ drawer_closed' = TRUE
    /\ app_pc' = "loop"
    /\ UNCHANGED <<dmvars, human>>

\* one turn of the main loop: the open sequence, the close sequence up to its test
\* of the switch, or nothing; then sleep_ms(20)
NdxLoop ==
    /\ app_pc = "loop"
    /\ IF human /\ ~drawer_closed
       THEN /\ s' = MoveToPositionMm(Enable(s, TRUE), 200)
            /\ app_pc' = "close_check"
            /\ UNCHANGED drawer_closed
       ELSE IF ~human /\ drawer_closed
       THEN /\ drawer_closed' = FALSE
            /\ s' = Disable(SetSpeed(MoveToPositionMm(
                        Enable(SetSpeed(s, cfg.forw_speed), TRUE), cfg.d_out),
                        cfg.back_speed))
            /\ app_pc' = "sleep"
       ELSE /\ app_pc' = "sleep"
            /\ UNCHANGED <<s, drawer_closed>>
    /\ UNCHANGED <<end_s, pc, loop_i, ret, cb_pc, orig, backoff, pulses, pos0, req,
                   calls, ivals, human>>

\* the close sequence ends, after home() or without it when the switch read 0
NdxCloseEnd ==
    /\ \/ app_pc = "close_check" /\ end_s = 0
       \/ app_pc = "close_home" /\ ClientIdle
    /\ drawer_closed' = TRUE
    /\ s' = Disable(s)
    /\ app_pc' = "sleep"
    /\ UNCHANGED <<end_s, pc, loop_i, ret, cb_pc, orig, backoff, pulses, pos0, req,
                   calls, ivals, human>>

\* the sleep is over
NdxSleep ==
    /\ app_pc = "sleep"
    /\ app_pc' = "loop"
    /\ UNCHANGED <<dmvars, human, drawer_closed>>

\* what main_mode_nonedex.py leaves alone
ndxrest == <<cmds, cfg, asyncvars, nbvars, mmvars, mpvars,
            stopped, tk, pl, past, xd, xcb, xnet, xp0, rt, ld, mu, cf, bytevars>>

NextNonedex ==
    \/ NdxRadarDist /\ UNCHANGED ndxrest
    \/ NdxRadarHuman /\ UNCHANGED ndxrest
    \/ NdxSwitch /\ UNCHANGED <<ndxrest, rth>>
    \/ NdxStart /\ UNCHANGED <<ndxrest, rth>>
    \/ NdxHome /\ UNCHANGED <<ndxrest, rth>>
    \/ NdxHomed /\ UNCHANGED <<ndxrest, rth>>
    \/ NdxLoop /\ UNCHANGED <<ndxrest, rth>>
    \/ NdxCloseEnd /\ UNCHANGED <<ndxrest, rth>>
    \/ NdxSleep /\ UNCHANGED <<ndxrest, rth>>
    \/ TimerFire /\ UNCHANGED appvars
    \/ TimerLow /\ UNCHANGED appvars
    \/ TimerCount /\ UNCHANGED appvars
    \/ SwitchChange /\ UNCHANGED appvars
    \/ HomeTriggered /\ UNCHANGED appvars
    \/ MsCompute /\ UNCHANGED appvars
    \/ MsHigh /\ UNCHANGED appvars
    \/ MsLow /\ UNCHANGED appvars
    \/ MsCount /\ UNCHANGED appvars
    \/ HomeEnd /\ UNCHANGED appvars

SpecNonedex == InitNonedex /\ [][NextNonedex]_vars

\* C5: every close sequence ends with drawer_closed true and the position at 0
\* steps, after a home() run in which the switch triggered.
C5_CloseEndsHomed ==
    [][NdxCloseEnd =>
          /\ app_pc = "close_home"
          /\ drawer_closed'
          /\ s'.current_position_steps = 0]_vars

\* C25: the pair (r_d, human) written by the radar thread is never torn: at every
\* instant human = (r_d < threshold)
C25_PresenceSampleNotTorn ==
    app_pc # "init" => (human <=> rth.r_d < cfg.d_threshold)

(***************************************************************************)
(* main.py: the control loop of main() with the Stepper of the stepper     *)
(* library, which runs its moves from a timer of its own.  The model       *)
(* follows main() from the first homing() on; xs holds what the program    *)
(* has last commanded the Stepper to do.  The speeds are scaled down.      *)
(***************************************************************************)
\* load_config's default_config (back_speed is ten times forw_speed) and the
\* hardware constants of main()
MainPyConfig ==
    [DefaultConfig EXCEPT !.d_threshold = 2000, !.forw_speed = AppSpeed,
                          !.back_speed = 10 * AppSpeed]

\* the distances radar.get_distance() * 10 yields in the model, in millimetres
MpRadarMm == {300, 3000}

\* homing() up to its wait loop: s.speed(homing_speed); s.free_run(-1)
XsFreeRun(x, speed) == [x EXCEPT !.speed = speed, !.run = "free_run"]

\* the end of homing(): s.stop(); s.overwrite_pos(0); s.target(0)
XsHomed(x) == [x EXCEPT !.run = "stopped", !.target = 0]

\* s.speed(v); s.target(t)
XsTarget(x, v, t) == [x EXCEPT !.speed = v, !.target = t]

\* the open branch: enable(True), track_target(), speed(forw_speed),
\* target(d_out*step_per_mm), enable(False)
XsOpen(x, c) ==
    [XsTarget([x EXCEPT !.run = "tracking"], c.forw_speed,
              MmToSteps(c.d_out, c.step_per_mm)) EXCEPT !.enabled = FALSE]

InitMainPy ==
    /\ InitDM_Driver
    /\ app_pc = "init"
    /\ human = TRUE
    /\ drawer_closed = TRUE
    /\ cmds = 0
    /\ cfg = MainPyConfig
    /\ AsyncOff /\ NbOff /\ MmOff /\ MpOff /\ AuxOff

\* the home switch changes
MpSwitch ==
    /\ app_pc # "init"
    /\ end_s' = 1 - end_s
    /\ UNCHANGED <<s, pc, loop_i, ret, cb_pc, orig, backoff, pulses, pos0, req, calls,
                   ivals, app_pc, cmds, mpvars>>

\* main() up to the wait loop of the first homing()
MpStart ==
    /\ app_pc = "init"
    /\ xs' = XsFreeRun(xs, cfg.homing_speed)
    /\ cmds' = (cmds + 1) % 4
    /\ app_pc' = "homing"
    /\ UNCHANGED <<dmvars, drawer_open, dist, vel>>

\* homing() sees the switch triggered and returns: to the start of the loop, or
\* to the end of the retract branch
MpHomed ==
    /\ app_pc \in {"homing", "retract_homing"}
    /\ end_s = 0
    /\ drawer_open' = (app_pc = "homing")
    /\ xs' = IF app_pc = "homing" THEN XsHomed(xs)
             ELSE [XsHomed(xs) EXCEPT !.enabled = FALSE]
    /\ app_pc' = "loop"
    /\ UNCHANGED <<dmvars, cmds, dist, vel>>

\* one turn of the loop: the distance is read; the retract branch is entered, or
\* the open branch runs, or nothing is done
MpLoop ==
    /\ app_pc = "loop"
    /\ \E r \in MpRadarMm : dist' = r
    /\ IF dist' < cfg.d_threshold /\ drawer_open
       THEN /\ xs' = [xs EXCEPT !.enabled = TRUE]
            /\ vel' = 1
            /\ app_pc' = "retract"
            /\ UNCHANGED <<drawer_open, cmds>>
       ELSE IF ~drawer_open
       THEN /\ xs' = XsOpen([xs EXCEPT !.enabled = TRUE], cfg)
            /\ cmds' = (cmds + 1) % 4
            /\ drawer_open' = TRUE
            /\ UNCHANGED <<vel, app_pc>>
       ELSE UNCHANGED <<xs, vel, app_pc, drawer_open, cmds>>
    /\ UNCHANGED dmvars

\* the retract branch: one turn of for vel in range(100, back_speed, 100), or its
\* end and the entry of homing()
MpRetract ==
    /\ app_pc = "retract"
    /\ IF vel < cfg.back_speed
       THEN /\ xs' = XsTarget(xs, vel, MmToSteps(100, cfg.step_per_mm))
            /\ vel' = vel + 1
            /\ UNCHANGED app_pc
       ELSE /\ xs' = XsFreeRun(xs, cfg.homing_speed)
            /\ app_pc' = "retract_homing"
            /\ UNCHANGED vel
    /\ cmds' = (cmds + 1) % 4
    /\ UNCHANGED <<dmvars, drawer_open, dist>>

\* what main.py leaves alone
mprest == <<human, drawer_closed, cfg, asyncvars, nbvars, mmvars, auxvars>>

NextMainPy ==
    \/ MpSwitch /\ UNCHANGED mprest
    \/ MpStart /\ UNCHANGED mprest
    \/ MpHomed /\ UNCHANGED mprest
    \/ MpLoop /\ UNCHANGED mprest
    \/ MpRetract /\ UNCHANGED mprest

SpecMainPy == InitMainPy /\ [][NextMainPy]_vars

====
